---- MODULE Spec2Model ----
(***************************************************************************)
(* A model of the worlds_ecs crate: the component registry, the prime      *)
(* archetype keys, the archetype storages and their catalog, the entity    *)
(* factory and the World operations built on them.                         *)
(*                                                                         *)
(* Indices (ComponentId, EntityId::id, ArchStorageId, ArchStorageIndex)    *)
(* keep the 0-based values of the code; a TLA+ sequence is indexed at      *)
(* value + 1.  A component type (a Rust TypeId) is a positive number.      *)
(***************************************************************************)
EXTENDS Integers, Sequences, FiniteSets, TLC

\* ------------------------------------------------------------------------
\* Bounds of the model
\* ------------------------------------------------------------------------
\* World::spawn calls in one behaviour of Spec.
MaxSpawns == 3
\* Types offered to the registry in SpecReg beyond MAX_COMPONENTS.
ExtraTypes == 2
\* Longest archetype B (the required one) drawn in SpecKey.
MaxSubLen == 2

\* ------------------------------------------------------------------------
\* State
\* ------------------------------------------------------------------------
VARIABLES
    type_map,        \* ComponentFactory::type_map : TypeId -> ComponentId
    components,      \* ComponentFactory::components : Vec<DataInfo> (the type it describes)
    generations,     \* EntityFactory::generations
    queued_entitys,  \* EntityFactory::queued_entitys
    entity_metas,    \* EntityFactory::entity_metas
    entities,        \* EntityFactory::entities
    storages,        \* ArchStorages::storages
    pkeys,           \* ArchStorages::pkeys
    spawned,         \* history: handle returned by each spawn, with the bundle given
    despawned,       \* history: handles whose despawn succeeded
    ret,             \* observation: the last call and what it returned
    overflow_checks, \* build profile: TRUE iff integer overflow panics (debug, test)
    archA,           \* SpecKey: archetype A, the component ids as listed
    archB,           \* SpecKey: archetype B, the component ids as listed
    keys,            \* SpecKey: the keys computed for archA and archB
    blob           \* SpecBlob: one BlobVec, the values moved into it and the drop calls

vars == <<type_map, components, generations, queued_entitys, entity_metas, entities,
          storages, pkeys, spawned, despawned, ret, overflow_checks,
          archA, archB, keys, blob>>



\* ------------------------------------------------------------------------
\* PrimeArchKey (utils/prime_key.rs): an unsigned 64-bit product of primes.
\* A u64 is held as KeyLimbs little-endian limbs of base LimbBase; the top
\* limb holds the remaining 64 - 4*15 = 4 bits.
\* ------------------------------------------------------------------------
MAX_COMPONENTS == 30
\* all_tuples!(impl_archetype, 0, 15, A): the widest flat tuple.
MAX_TUPLE == 15
LimbBase == 32768
TopLimbBase == 16
KeyLimbs == 5

PRIMES == <<2, 3, 5, 7, 11, 13, 17, 19, 23, 29, 31, 37, 41, 43, 47, 53, 59, 61, 67, 71,
            73, 79, 83, 89, 97, 101, 103, 107, 109, 113>>

Limb(a, i) == IF i <= Len(a) THEN a[i] ELSE 0

U64OfSmall(n) == <<n % LimbBase, n \div LimbBase, 0, 0, 0>>

IsSingleLimb(a) == \A i \in 2..Len(a) : a[i] = 0

\* a * m for one limb m, limb by limb from limb i with carry; Len(a) + 1 limbs.
RECURSIVE LimbMulRow(_, _, _, _)
LimbMulRow(a, m, i, carry) ==
    IF i > Len(a) THEN <<carry>>
    ELSE LET t == a[i] * m + carry
         IN  <<t % LimbBase>> \o LimbMulRow(a, m, i + 1, t \div LimbBase)

\* a + b over n limbs from limb i with carry (a carry out of limb n is dropped:
\* the callers give n limbs that hold the sum).
RECURSIVE LimbAdd(_, _, _, _, _)
LimbAdd(a, b, i, carry, n) ==
    IF i > n THEN <<>>
    ELSE LET t == Limb(a, i) + Limb(b, i) + carry
         IN  <<t % LimbBase>> \o LimbAdd(a, b, i + 1, t \div LimbBase, n)

Zeros(n) == [i \in 1..n |-> 0]

\* The exact product of a and b, over Len(a) + Len(b) + 1 limbs.
RECURSIVE MulAcc(_, _, _, _)
MulAcc(a, b, j, acc) ==
    IF j > Len(b) THEN acc
    ELSE IF b[j] = 0 THEN MulAcc(a, b, j + 1, acc)
    ELSE MulAcc(a, b, j + 1,
                LimbAdd(acc, Zeros(j - 1) \o LimbMulRow(a, b[j], 1, 0), 1, 0, Len(acc)))

BigMul(a, b) == MulAcc(a, b, 1, Zeros(Len(a) + Len(b) + 1))

\* TRUE iff the exact product does not fit in 64 bits.
MulOverflows(a, b) ==
    LET p == BigMul(a, b)
    IN  \/ p[KeyLimbs] >= TopLimbBase
        \/ \E i \in (KeyLimbs + 1)..Len(p) : p[i] # 0

\* The low 64 bits of the product: what a wrapping u64 multiplication leaves.
WrappingMul(a, b) ==
    LET p == BigMul(a, b)
    IN  <<p[1], p[2], p[3], p[4], p[5] % TopLimbBase>>

\* a >= b for two limb sequences of the same length, from the top limb i down.
RECURSIVE LimbGeq(_, _, _)
LimbGeq(a, b, i) ==
    IF i = 0 THEN TRUE
    ELSE IF a[i] # b[i] THEN a[i] > b[i]
    ELSE LimbGeq(a, b, i - 1)

\* a - b (a >= b) over the limbs from i up, with borrow.
RECURSIVE LimbSub(_, _, _, _)
LimbSub(a, b, i, borrow) ==
    IF i > Len(a) THEN <<>>
    ELSE LET t == a[i] - Limb(b, i) - borrow
         IN  IF t < 0 THEN <<t + LimbBase>> \o LimbSub(a, b, i + 1, 1)
             ELSE <<t>> \o LimbSub(a, b, i + 1, 0)

\* Bit k (0-based) of a.
RECURSIVE Pow2(_)
Pow2(k) == IF k = 0 THEN 1 ELSE 2 * Pow2(k - 1)
BitOf(a, k) == (a[(k \div 15) + 1] \div Pow2(k % 15)) % 2

\* a % b by binary long division, from bit k down; r is the running remainder
\* (KeyLimbs + 1 limbs: 2r + 1 may pass 64 bits before b is subtracted).
RECURSIVE LongRem(_, _, _, _)
LongRem(a, b, k, r) ==
    IF k < 0 THEN r
    ELSE LET r2 == LimbAdd(LimbAdd(r, r, 1, 0, Len(r)), <<BitOf(a, k)>>, 1, 0, Len(r))
             bb == b \o <<0>>
         IN  IF LimbGeq(r2, bb, Len(r2))
             THEN LongRem(a, b, k - 1, LimbSub(r2, bb, 1, 0))
             ELSE LongRem(a, b, k - 1, r2)

\* a % m for a one-limb m, limb by limb from the top.
RECURSIVE SmallRem(_, _, _, _)
SmallRem(a, m, i, r) ==
    IF i = 0 THEN r
    ELSE SmallRem(a, m, i - 1, (r * LimbBase + a[i]) % m)

IsZero(a) == \A i \in 1..Len(a) : a[i] = 0

\* u64 % u64 == 0 (b # 0).
Divides(b, a) ==
    IF IsSingleLimb(b) THEN SmallRem(a, b[1], Len(a), 0) = 0
    ELSE IsZero(LongRem(a, b, 63, Zeros(KeyLimbs + 1)))

\* PrimeArchKey::IDENTITY
IDENTITY == U64OfSmall(1)

\* PrimeArchKey::component_key: the id-th prime of the table.  The model
\* calls it for ids below MAX_COMPONENTS only.
component_key(id) == U64OfSmall(PRIMES[id + 1])

\* PrimeArchKey::merge_with: self *= other, as a build without overflow checks
\* (release) computes it: the low 64 bits of the product.
merge_with(self, other) == WrappingMul(self, other)

\* TRUE iff merge_with(self, other) panics in a build with overflow checks
\* (debug, test): "attempt to multiply with overflow".
merge_overflows(self, other) == MulOverflows(self, other)

\* PrimeArchKey::is_exact_archetype
is_exact_archetype(self, other) == self = other

\* PrimeArchKey::is_sub_archetype: self % other == 0
is_sub_archetype(self, other) == Divides(other, self)

\* PrimeArchKey::squared
squared(self) == merge_with(self, self)

\* ------------------------------------------------------------------------
\* Option<T>: None is the empty sequence, Some(x) the one-element sequence.
\* ------------------------------------------------------------------------
None == <<>>
Some(x) == <<x>>
IsSome(o) == o # <<>>
Unwrap(o) == o[1]

\* F applied to the value of x: the statements of a function body run one
\* after the other, each on the values the ones before it have produced.
Then(x, F(_)) == CHOOSE r \in {F(v) : v \in {x}} : TRUE

\* ------------------------------------------------------------------------
\* ComponentFactory (component.rs).  cf is [type_map, components].
\* ------------------------------------------------------------------------
EmptyFactory == [type_map |-> <<>>, components |-> <<>>]

is_type_registered(cf, type_id) == type_id \in DOMAIN cf.type_map

get_component_id_from_type_id(cf, type_id) ==
    IF type_id \in DOMAIN cf.type_map THEN Some(cf.type_map[type_id]) ELSE None

get_component_id(cf, C) == get_component_id_from_type_id(cf, C)

is_registered(cf, C) == C \in DOMAIN cf.type_map

\* HashMap::insert replaces the entry of a key that is already there.
MapInsert(m, k, v) == [x \in DOMAIN m \cup {k} |-> IF x = k THEN v ELSE m[x]]

\* [cf |-> the factory after the call, id |-> the ComponentId returned]
register_component_from_data_unchecked(cf, type_id) ==
    [cf |-> [type_map   |-> MapInsert(cf.type_map, type_id, Len(cf.components)),
             components |-> Append(cf.components, type_id)],
     id |-> Len(cf.components)]

\* [cf |-> the factory after the call, ret |-> the Option<ComponentId> returned].
\* bool::then_some takes its argument by value: the unchecked registration
\* has run before then_some looks at the comparison.
register_component_from_data(cf, type_id) ==
    IF is_type_registered(cf, type_id)
    THEN [cf |-> cf, ret |-> get_component_id_from_type_id(cf, type_id)]
    ELSE LET below == Len(cf.components) < MAX_COMPONENTS
         IN  Then(register_component_from_data_unchecked(cf, type_id), LAMBDA reg :
                [cf |-> reg.cf, ret |-> IF below THEN Some(reg.id) ELSE None])

register_component(cf, C) == register_component_from_data(cf, C)

\* ComponentId::prime_key
comp_prime_key(comp_id) == component_key(comp_id)

\* ------------------------------------------------------------------------
\* Archetype (archetype.rs).  An archetype is the sequence of component
\* types of a (flat) tuple, in the order the tuple lists them.
\* ------------------------------------------------------------------------
\* The key of the archetype's first component alone.
prime_key_of_first(cf, arch) ==
    IF arch = <<>> THEN Some(IDENTITY)
    ELSE IF ~IsSome(get_component_id(cf, arch[1])) THEN None
    ELSE Some(comp_prime_key(Unwrap(get_component_id(cf, arch[1]))))

\* Archetype::prime_key: Option<PrimeArchKey>; None when a component of the
\* archetype is not registered.
RECURSIVE prime_key_from(_, _, _, _)
prime_key_from(cf, arch, i, pkey) ==
    IF i > Len(arch) THEN Some(pkey)
    ELSE LET cid == get_component_id(cf, arch[i])
         IN  IF ~IsSome(cid) THEN None
             ELSE Then(merge_with(pkey, comp_prime_key(Unwrap(cid))),
                       LAMBDA merged : prime_key_from(cf, arch, i + 1, merged))

prime_key(cf, arch) == prime_key_from(cf, arch, 1, IDENTITY)

\* TRUE iff some merge_with of Archetype::prime_key overflows 64 bits, so that
\* the call panics in a build with overflow checks.
RECURSIVE prime_key_overflows_from(_, _, _, _)
prime_key_overflows_from(cf, arch, i, pkey) ==
    IF i > Len(arch) THEN FALSE
    ELSE LET cid == get_component_id(cf, arch[i])
         IN  IF ~IsSome(cid) THEN FALSE
             ELSE \/ merge_overflows(pkey, comp_prime_key(Unwrap(cid)))
                  \/ Then(merge_with(pkey, comp_prime_key(Unwrap(cid))),
                          LAMBDA merged : prime_key_overflows_from(cf, arch, i + 1, merged))

prime_key_overflows(cf, arch) == prime_key_overflows_from(cf, arch, 1, IDENTITY)

\* Archetype::arch_info: Option<ArchetypeInfo>, [component_ids, prime_key].
RECURSIVE arch_info_from(_, _, _, _)
arch_info_from(cf, arch, i, info) ==
    IF i > Len(arch) THEN Some(info)
    ELSE LET cid == get_component_id(cf, arch[i])
         IN  IF ~IsSome(cid) THEN None
             ELSE Then([component_ids |-> Append(info.component_ids, Unwrap(cid)),
                        prime_key |-> merge_with(info.prime_key, comp_prime_key(Unwrap(cid)))],
                       LAMBDA merged : arch_info_from(cf, arch, i + 1, merged))

arch_info(cf, arch) ==
    arch_info_from(cf, arch, 1, [component_ids |-> <<>>, prime_key |-> IDENTITY])

\* Archetype::get_prime_key_or_register:
\* [cf |-> the factory after the call, pkey |-> the key, panic |-> the expect failed].
RECURSIVE get_prime_key_or_register_from(_, _, _, _)
get_prime_key_or_register_from(cf, arch, i, pkey) ==
    IF i > Len(arch) THEN [cf |-> cf, pkey |-> pkey, panic |-> FALSE]
    ELSE Then(register_component(cf, arch[i]), LAMBDA r :
            IF ~IsSome(r.ret) THEN [cf |-> r.cf, pkey |-> pkey, panic |-> TRUE]
            ELSE Then(merge_with(pkey, comp_prime_key(Unwrap(r.ret))), LAMBDA merged :
                    get_prime_key_or_register_from(r.cf, arch, i + 1, merged)))

get_prime_key_or_register(cf, arch) == get_prime_key_or_register_from(cf, arch, 1, IDENTITY)

\* ArchetypeInfo::check_for_duplicates
check_for_duplicates(info) ==
    \E k \in 1..Len(info.component_ids) :
        is_sub_archetype(info.prime_key, squared(comp_prime_key(info.component_ids[k])))

TypesOf(arch) == {arch[k] : k \in 1..Len(arch)}
IsDuplicateFree(arch) == \A j, k \in 1..Len(arch) : j # k => arch[j] # arch[k]

\* ------------------------------------------------------------------------
\* EntityFactory (entity.rs).  ef is [generations, queued_entitys,
\* entity_metas, entities]; an EntityId is [id, gen]; an EntityMeta is
\* [sid, idx] (archetype_storage_id, archetype_storage_index).
\* ------------------------------------------------------------------------
EntityId(id, gen) == [id |-> id, gen |-> gen]
EntityMeta(sid, idx) == [sid |-> sid, idx |-> idx]

EmptyEntityFactory ==
    [generations |-> <<>>, queued_entitys |-> <<>>, entity_metas |-> <<>>, entities |-> 0]

\* EntityFactory::set_entity_meta
set_entity_meta(ef, entity_meta, entity) ==
    [ef EXCEPT !.entity_metas[entity.id + 1] = entity_meta]

\* EntityFactory::set_entity_arch_storage_index
set_entity_arch_storage_index(ef, index, entity) ==
    [ef EXCEPT !.entity_metas[entity.id + 1].idx = index]

\* EntityFactory::alloc_new_entity: [ef, id]; the id is taken from the counter
\* of live entities, the slot is pushed at the end of the vectors.
alloc_new_entity(ef, entity_meta) ==
    [ef |-> [ef EXCEPT !.generations = Append(@, 0),
                       !.entity_metas = Append(@, entity_meta)],
     id |-> EntityId(ef.entities - 1, 0)]

\* revive_removed_entity that hands out the queued handle as it was removed.
revive_queued_handle(ef, entity_meta) ==
    IF ef.queued_entitys = <<>> THEN [ef |-> ef, ret |-> None]
    ELSE [ef |-> set_entity_meta([ef EXCEPT !.queued_entitys = Tail(@)], entity_meta,
                                 Head(ef.queued_entitys)),
          ret |-> Some(Head(ef.queued_entitys))]

\* revive_removed_entity that takes the handle removed last.
revive_last_removed(ef, entity_meta) ==
    IF ef.queued_entitys = <<>> THEN [ef |-> ef, ret |-> None]
    ELSE LET id == ef.queued_entitys[Len(ef.queued_entitys)]
             entity == EntityId(id.id, ef.generations[id.id + 1])
             popped == [ef EXCEPT !.queued_entitys = SubSeq(@, 1, Len(@) - 1)]
         IN  [ef |-> set_entity_meta(popped, entity_meta, entity), ret |-> Some(entity)]

\* EntityFactory::revive_removed_entity: [ef, ret : Option<EntityId>]
revive_removed_entity(ef, entity_meta) ==
    IF ef.queued_entitys = <<>> THEN [ef |-> ef, ret |-> None]
    ELSE LET id == Head(ef.queued_entitys)
             entity == EntityId(id.id, ef.generations[id.id + 1])
             popped == [ef EXCEPT !.queued_entitys = Tail(@)]
         IN  [ef |-> set_entity_meta(popped, entity_meta, entity), ret |-> Some(entity)]

\* EntityFactory::new_entity: [ef, id].  Option::unwrap_or takes its argument by
\* value: alloc_new_entity has run whether or not an entity was revived.
new_entity(ef, entity_meta) ==
    Then([ef EXCEPT !.entities = @ + 1], LAMBDA counted :
    Then(revive_removed_entity(counted, entity_meta), LAMBDA revived :
    Then(alloc_new_entity(revived.ef, entity_meta), LAMBDA alloc :
        [ef |-> alloc.ef,
         id |-> IF IsSome(revived.ret) THEN Unwrap(revived.ret) ELSE alloc.id])))

\* EntityFactory::verify_generation (the handles of the model index a slot
\* that exists).
verify_generation(ef, entity) == ef.generations[entity.id + 1] = entity.gen

\* remove_entity without the increment of the slot's generation.
remove_entity_keeps_generation(ef, entity) ==
    [ef EXCEPT !.entities = @ - 1,
               !.queued_entitys = Append(@, entity)]

\* remove_entity without the decrement of the count of live entities.
remove_entity_keeps_count(ef, entity) ==
    [ef EXCEPT !.generations[entity.id + 1] = @ + 1,
               !.queued_entitys = Append(@, entity)]

\* remove_entity that raises the generation of the slot behind the removed one.
remove_entity_raises_next(ef, entity) ==
    [ef EXCEPT !.generations = [i \in 1..Len(@) |->
                                  IF i = entity.id + 2 THEN @[i] + 1 ELSE @[i]],
               !.entities = @ - 1,
               !.queued_entitys = Append(@, entity)]

\* EntityFactory::remove_entity, for an entity that passes the assert.
remove_entity(ef, entity) ==
    [ef EXCEPT !.generations[entity.id + 1] = @ + 1,
               !.entities = @ - 1,
               !.queued_entitys = Append(@, entity)]

\* get_entity_meta without the check of the handle's generation.
get_entity_meta_unverified(ef, entity) == Some(ef.entity_metas[entity.id + 1])

\* EntityFactory::get_entity_meta: Option<EntityMeta>
get_entity_meta(ef, entity) ==
    IF verify_generation(ef, entity) THEN Some(ef.entity_metas[entity.id + 1]) ELSE None

\* ------------------------------------------------------------------------
\* ArchStorage and ArchEntityStorage (world/storage).  A storage is
\* [comp_indexes, comp_storage, prime_key, len, entities]; a column (BlobVec)
\* is the sequence of the values it holds.  A bundle is a sequence of
\* [type, val], in the order the tuple lists its components.
\* ------------------------------------------------------------------------
ArchOf(bundle) == [k \in 1..Len(bundle) |-> bundle[k].type]

\* ArchStorage::new with ArchEntityStorage::new: Option<storage>.  The later
\* HashMap::insert of a component id replaces the earlier one.
RECURSIVE comp_indexes_from(_, _, _)
comp_indexes_from(component_ids, i, m) ==
    IF i > Len(component_ids) THEN m
    ELSE comp_indexes_from(component_ids, i + 1, MapInsert(m, component_ids[i], i - 1))

ArchEntityStorage_new(cf, arch) ==
    LET info == arch_info(cf, arch)
    IN  IF ~IsSome(info) THEN None
        ELSE Some([comp_indexes |-> comp_indexes_from(Unwrap(info).component_ids, 1, <<>>),
                   comp_storage |-> [k \in 1..Len(Unwrap(info).component_ids) |-> <<>>],
                   prime_key    |-> Unwrap(info).prime_key,
                   len          |-> 0,
                   entities     |-> <<>>])

\* ArchEntityStorage::next_index
next_index(st) == st.len

\* ArchStorage::store_component_unchecked: BlobVec::push on the column of the
\* component (the callers of the model give a component the storage has).
store_component_unchecked(st, comp_id, raw_comp) ==
    [st EXCEPT !.comp_storage[st.comp_indexes[comp_id] + 1] = Append(@, raw_comp)]

\* Bundle::raw_components_scope: f on each component, in tuple order.
RECURSIVE raw_components_scope(_, _, _, _)
raw_components_scope(st, cf, bundle, k) ==
    IF k > Len(bundle) THEN st
    ELSE Then(store_component_unchecked(st, Unwrap(get_component_id(cf, bundle[k].type)),
                                        bundle[k].val),
              LAMBDA pushed : raw_components_scope(pushed, cf, bundle, k + 1))

\* ArchStorage::store_bundle_unchecked: [st, idx]
store_bundle_unchecked(st, cf, bundle) ==
    Then(raw_components_scope(st, cf, bundle, 1), LAMBDA pushed :
        [st |-> [pushed EXCEPT !.len = @ + 1], idx |-> pushed.len])

\* ArchStorage::store_bundle: [st, ret : Option<ArchStorageIndex>].  then_some
\* takes its argument by value: the bundle is stored before the comparison
\* of the keys decides what is returned.  The model calls it with a bundle
\* whose components are columns of the storage.
store_bundle(st, cf, bundle) ==
    LET pkey == prime_key(cf, ArchOf(bundle))
    IN  IF ~IsSome(pkey) THEN [st |-> st, ret |-> None]
        ELSE LET exact == is_exact_archetype(Unwrap(pkey), st.prime_key)
             IN  Then(store_bundle_unchecked(st, cf, bundle), LAMBDA stored :
                    [st |-> stored.st, ret |-> IF exact THEN Some(stored.idx) ELSE None])

\* ArchEntityStorage::store_entity: [st, ret]
store_entity(st, entity_id, bundle, cf) ==
    Then([st EXCEPT !.entities = Append(@, entity_id)], LAMBDA pushed :
        store_bundle(pushed, cf, bundle))

\* A removal that closes the gap by shifting the items behind it.
SeqShiftRemove(v, index) ==
    [k \in 1..(Len(v) - 1) |-> IF k <= index THEN v[k] ELSE v[k + 1]]

\* Vec::swap_remove and BlobVec::swap_remove_and_drop_unchecked on a sequence:
\* the last element takes the place of the removed one (index < Len(v)).
SeqSwapRemove(v, index) ==
    LET n == Len(v)
    IN  [k \in 1..(n - 1) |-> IF k = index + 1 THEN v[n] ELSE v[k]]

\* ArchStorage::swap_remove_unchecked: the row leaves every column.
arch_swap_remove_unchecked(st, index) ==
    [st EXCEPT !.comp_storage = [c \in DOMAIN @ |-> SeqSwapRemove(@[c], index)],
               !.len = @ - 1]

\* ArchEntityStorage::get_entity_at: Option<EntityId>
get_entity_at(st, index) ==
    IF index < Len(st.entities) THEN Some(st.entities[index + 1]) ELSE None

\* ArchEntityStorage::swap_remove, for index < Len(st.entities) (Vec::swap_remove
\* panics otherwise, before anything is changed): [st, ret : Option<EntityId>]
swap_remove(st, index) ==
    Then([st EXCEPT !.entities = SeqSwapRemove(@, index)], LAMBDA taken :
    Then(arch_swap_remove_unchecked(taken, index), LAMBDA removed :
        [st |-> removed, ret |-> get_entity_at(removed, index)]))

\* Every column of the storage holds the row: the precondition of
\* BlobVec::swap_remove_and_drop_unchecked on each of them.
RowInEveryColumn(st, index) ==
    \A c \in DOMAIN st.comp_storage : index < Len(st.comp_storage[c])

\* ArchStorage::get_component(index, comp_id): Option<value>.  then_some takes
\* its argument by value: BlobVec::get_unchecked runs for an index that is out
\* of bounds too, where its debug_assert panics in a build with debug
\* assertions; Panicked is the outcome of such a call.
Panicked == <<-1>>

arch_get_component(st, index, comp_id, debug_assertions) ==
    IF comp_id \notin DOMAIN st.comp_indexes THEN None
    ELSE LET column == st.comp_storage[st.comp_indexes[comp_id] + 1]
         IN  IF index >= Len(column) /\ debug_assertions THEN Panicked
             ELSE IF index < st.len /\ index < Len(column) THEN Some(column[index + 1])
             ELSE None

\* ArchStorage::iter_indices: the rows 0..len, in ascending order.
iter_indices(st) == [k \in 1..st.len |-> k - 1]

\* ArchStorage::contains_archetype: the storage's key against the archetype's.
contains_archetype(st, cf, arch) ==
    LET pkey == prime_key(cf, arch)
    IN  IsSome(pkey) /\ is_sub_archetype(st.prime_key, Unwrap(pkey))

\* ------------------------------------------------------------------------
\* ArchStorages (world/storage/storages.rs).  ss is [storages, pkeys].
\* ------------------------------------------------------------------------
EmptyStorages == [storages |-> <<>>, pkeys |-> <<>>]

\* ArchStorages::get_storage: Option<storage>
get_storage(ss, sid) ==
    IF sid < Len(ss.storages) THEN Some(ss.storages[sid + 1]) ELSE None

\* ArchStorages::is_archetype_stored
is_archetype_stored(ss, cf, arch) ==
    LET pkey1 == prime_key(cf, arch)
    IN  /\ IsSome(pkey1)
        /\ \E i \in 1..Len(ss.pkeys) : is_exact_archetype(ss.pkeys[i], Unwrap(pkey1))

\* ArchStorages::store_new_archetype_unchecked, for an archetype whose
\* components are registered: [ss, id]
store_new_archetype_unchecked(ss, cf, arch) ==
    Then([storages |-> Append(ss.storages, Unwrap(ArchEntityStorage_new(cf, arch))),
          pkeys    |-> Append(ss.pkeys, Unwrap(prime_key(cf, arch)))],
         LAMBDA pushed : [ss |-> pushed, id |-> Len(pushed.pkeys) - 1])

\* ArchStorages::store_new_archetype_checked: [ss, ret : Option<ArchStorageId>].
\* then_some takes its argument by value: the storage is pushed before the
\* condition decides what is returned.
store_new_archetype_checked(ss, cf, arch) ==
    LET cond == IsSome(arch_info(cf, arch)) /\ ~is_archetype_stored(ss, cf, arch)
    IN  Then(store_new_archetype_unchecked(ss, cf, arch), LAMBDA stored :
            [ss |-> stored.ss, ret |-> IF cond THEN Some(stored.id) ELSE None])

\* The first position of pkeys whose key is exactly pkey, 0 if there is none.
RECURSIVE position_exact(_, _, _)
position_exact(keyseq, pkey, i) ==
    IF i > Len(keyseq) THEN 0
    ELSE IF is_exact_archetype(keyseq[i], pkey) THEN i
    ELSE position_exact(keyseq, pkey, i + 1)

\* ArchStorages::get_mut_or_create_storage_with_exact_archetype:
\* [cf, ss, sid, panic]; panic when a component cannot be registered or
\* when store_new_archetype_checked returns None to the unwrap.
get_mut_or_create_storage_with_exact_archetype(ss, cf, arch) ==
    Then(get_prime_key_or_register(cf, arch), LAMBDA k :
    Then(position_exact(ss.pkeys, k.pkey, 1), LAMBDA found :
        IF k.panic THEN [cf |-> k.cf, ss |-> ss, sid |-> 0, panic |-> TRUE]
        ELSE IF found > 0 THEN [cf |-> k.cf, ss |-> ss, sid |-> found - 1, panic |-> FALSE]
        ELSE Then(store_new_archetype_checked(ss, k.cf, arch), LAMBDA created :
                IF IsSome(created.ret)
                THEN [cf |-> k.cf, ss |-> created.ss, sid |-> Unwrap(created.ret),
                      panic |-> FALSE]
                ELSE [cf |-> k.cf, ss |-> created.ss, sid |-> 0, panic |-> TRUE])))

\* The matching storages listed from the last created to the first.
RECURSIVE matching_backwards(_, _, _)
matching_backwards(ss, pkey, i) ==
    IF i > Len(ss.pkeys) THEN <<>>
    ELSE matching_backwards(ss, pkey, i + 1)
         \o (IF is_sub_archetype(ss.pkeys[i], pkey) THEN <<i - 1>> ELSE <<>>)

\* ArchStorages::iter_storages_with_matching_archetype: the ids of the
\* storages whose key has pkey as a sub-archetype, in catalog order.
RECURSIVE matching_from(_, _, _)
matching_from(ss, pkey, i) ==
    IF i > Len(ss.pkeys) THEN <<>>
    ELSE (IF is_sub_archetype(ss.pkeys[i], pkey) THEN <<i - 1>> ELSE <<>>)
         \o matching_from(ss, pkey, i + 1)

iter_storages_with_matching_archetype(ss, pkey) == matching_from(ss, pkey, 1)

\* ------------------------------------------------------------------------
\* World (world/mod.rs).  w is [cf, ef, ss].
\* ------------------------------------------------------------------------
\* World::spawn: [w, id, panic]
spawn(w, bundle) ==
    Then(get_mut_or_create_storage_with_exact_archetype(w.ss, w.cf, ArchOf(bundle)), LAMBDA g :
        IF g.panic THEN [w |-> [w EXCEPT !.cf = g.cf, !.ss = g.ss], id |-> None, panic |-> TRUE]
        ELSE Then(g.ss.storages[g.sid + 1], LAMBDA storage :
             Then(next_index(storage), LAMBDA index :
             Then(new_entity(w.ef, EntityMeta(g.sid, index)), LAMBDA made :
             Then(store_entity(storage, made.id, bundle, g.cf), LAMBDA stored :
                [w |-> [cf |-> g.cf, ef |-> made.ef,
                        ss |-> [g.ss EXCEPT !.storages[g.sid + 1] = stored.st]],
                 id |-> Some(made.id), panic |-> FALSE])))))

\* World::get_component: Option<value>, or Panicked
get_component(w, entity, C, debug_assertions) ==
    LET entity_meta == get_entity_meta(w.ef, entity)
    IN  IF ~IsSome(entity_meta) THEN None
        ELSE LET storage == get_storage(w.ss, Unwrap(entity_meta).sid)
                 comp_id == get_component_id(w.cf, C)
             IN  IF ~IsSome(storage) \/ ~IsSome(comp_id) THEN None
                 ELSE arch_get_component(Unwrap(storage), Unwrap(entity_meta).idx,
                                         Unwrap(comp_id), debug_assertions)

\* World::despawn panics before it changes anything: the handle is stale
\* (expect), or the recorded row is not a row of the entity vector
\* (Vec::swap_remove).
despawn_panics(w, entity) ==
    LET entity_meta == get_entity_meta(w.ef, entity)
    IN  \/ ~IsSome(entity_meta)
        \/ ~IsSome(get_storage(w.ss, Unwrap(entity_meta).sid))
        \/ Unwrap(entity_meta).idx >= Len(w.ss.storages[Unwrap(entity_meta).sid + 1].entities)

\* World::despawn, when it does not panic: the world after the call.
despawn(w, entity) ==
    Then(Unwrap(get_entity_meta(w.ef, entity)), LAMBDA entity_meta :
    Then(swap_remove(w.ss.storages[entity_meta.sid + 1], entity_meta.idx), LAMBDA removed :
    Then(IF IsSome(removed.ret)
         THEN set_entity_arch_storage_index(w.ef, entity_meta.idx, Unwrap(removed.ret))
         ELSE w.ef, LAMBDA updated :
        [cf |-> w.cf,
         ef |-> remove_entity(updated, entity),
         ss |-> [w.ss EXCEPT !.storages[entity_meta.sid + 1] = removed.st]])))

\* ------------------------------------------------------------------------
\* Queries (query/arch_query.rs): World::query::<(EntityId, &C)>, the items
\* in iteration order, each <<entity, value>>.
\* ------------------------------------------------------------------------
RECURSIVE FlattenSeq(_)
FlattenSeq(ss) == IF ss = <<>> THEN <<>> ELSE Head(ss) \o FlattenSeq(Tail(ss))

\* <(EntityId, &C) as ArchQuery>::fetch
fetch_entity_ref(st, index, comp_id) ==
    <<st.entities[index + 1], st.comp_storage[st.comp_indexes[comp_id] + 1][index + 1]>>

\* ArchQuery::iter_query_matches for (EntityId, &C), C registered.
iter_query_matches(ss, cf, C) ==
    LET comp_id == Unwrap(get_component_id(cf, C))
        pkey == merge_with(IDENTITY, comp_prime_key(comp_id))
        sids == iter_storages_with_matching_archetype(ss, pkey)
    IN  FlattenSeq([n \in 1..Len(sids) |->
            LET st == ss.storages[sids[n] + 1]
                rows == iter_indices(st)
            IN  [r \in 1..Len(rows) |-> fetch_entity_ref(st, rows[r], comp_id)]])

\* World::query::<(EntityId, &C)>
query(w, C) == iter_query_matches(w.ss, w.cf, C)

\* ------------------------------------------------------------------------
\* ArchQuery for any tuple of terms (query/arch_query.rs, query_filter.rs).
\* A term is a record: [kind |-> "ref", type |-> C] for &C, "mut" for &mut C,
\* "opt" for Option<&C>, "opt_mut" for Option<&mut C>, [kind |-> "entity"] for
\* EntityId, [kind |-> "has", arch |-> A] for Has<A>, [kind |-> "not", sub |-> F]
\* for Not<F>, [kind |-> "or", sub |-> F] for Or<F> and
\* [kind |-> "tuple", subs |-> <<..>>] for a tuple of terms.
\* ------------------------------------------------------------------------
Ref(C) == [kind |-> "ref", type |-> C]
Mut(C) == [kind |-> "mut", type |-> C]
Opt(C) == [kind |-> "opt", type |-> C]
OptMut(C) == [kind |-> "opt_mut", type |-> C]
EntityTerm == [kind |-> "entity"]
Has(A) == [kind |-> "has", arch |-> A]
Not(F) == [kind |-> "not", sub |-> F]
Or(F) == [kind |-> "or", sub |-> F]
Tuple(Q) == [kind |-> "tuple", subs |-> Q]

\* PrimeArchKey::merge_with_but_panic_if_already_merged: the merge of a
\* required term's prime into the key of the query.  It panics when the prime
\* is already in the product, which is read off the 64-bit key (self % other
\* == 0); the multiplication itself panics on an overflow in a build with
\* overflow checks.  acc is [pkey, panic], panic "" while no panic occurred.
merge_with_but_panic_if_already_merged(self, other, checks) ==
    IF is_sub_archetype(self, other) THEN [pkey |-> self, panic |-> "duplicate"]
    ELSE IF checks /\ merge_overflows(self, other)
         THEN [pkey |-> self, panic |-> "overflow"]
    ELSE [pkey |-> merge_with(self, other), panic |-> ""]

\* merge_prime_arch_key_with as the trait's default for every term: nothing
\* is looked up and nothing is merged.
merge_prime_arch_key_default(acc, cf, term, checks) == acc

\* ArchQuery::merge_prime_arch_key_with: &C and &mut C merge the key of C and
\* expect C to be registered; the tuple merges its elements from left to
\* right; every other term keeps the default, which does nothing.
RECURSIVE merge_prime_arch_key_with(_, _, _, _)
RECURSIVE merge_tuple_from(_, _, _, _, _)
merge_prime_arch_key_with(acc, cf, term, checks) ==
    IF acc.panic # "" THEN acc
    ELSE IF term.kind \in {"ref", "mut"}
    THEN Then(get_component_id(cf, term.type), LAMBDA cid :
            IF ~IsSome(cid) THEN [pkey |-> acc.pkey, panic |-> "unregistered"]
            ELSE merge_with_but_panic_if_already_merged(
                     acc.pkey, comp_prime_key(Unwrap(cid)), checks))
    ELSE IF term.kind = "tuple"
    THEN merge_tuple_from(acc, cf, term.subs, 1, checks)
    ELSE acc

merge_tuple_from(acc, cf, subs, i, checks) ==
    IF i > Len(subs) THEN acc
    ELSE Then(merge_prime_arch_key_with(acc, cf, subs[i], checks),
              LAMBDA merged : merge_tuple_from(merged, cf, subs, i + 1, checks))

\* The first two statements of ArchQuery::iter_query_matches (and of
\* iter_filtered_query_matches), which run at the call, before the iterator
\* exists: the key of the query, from IDENTITY.
query_prime_key(cf, Q, checks) ==
    merge_prime_arch_key_with([pkey |-> IDENTITY, panic |-> ""], cf, Q, checks)

\* FilterResult::all and FilterResult::any of the item a term has fetched:
\* a bool is itself, a tuple is the conjunction (all) or the disjunction
\* (any) of its elements' all (any).
RECURSIVE filter_all(_, _)
RECURSIVE filter_any(_, _)
filter_all(term, item) ==
    IF term.kind = "tuple"
    THEN \A k \in 1..Len(term.subs) : filter_all(term.subs[k], item[k])
    ELSE item

\* An any() that asks each element of the tuple for all().
filter_any_of_all(term, item) ==
    IF term.kind = "tuple"
    THEN \E k \in 1..Len(term.subs) : filter_all(term.subs[k], item[k])
    ELSE item

filter_any(term, item) ==
    IF term.kind = "tuple"
    THEN \E k \in 1..Len(term.subs) : filter_any(term.subs[k], item[k])
    ELSE item

\* FilterResult::collapse
collapse(term, item) == filter_all(term, item)

\* ArchQuery::fetch of a term on a row of a storage.  &C and &mut C read the
\* row of C's column; Option<&C> and Option<&mut C> go through
\* ArchStorage::get_component; EntityId reads the row's handle; Has<A> asks
\* the storage; Not<F> and Or<F> fetch F (ArchFilter::filter is Q::fetch) and
\* negate its collapse, or take its any; a tuple fetches its elements.
RECURSIVE fetch(_, _, _, _)
fetch(st, index, cf, term) ==
    IF term.kind \in {"ref", "mut"}
    THEN st.comp_storage[st.comp_indexes[Unwrap(get_component_id(cf, term.type))] + 1][index + 1]
    ELSE IF term.kind \in {"opt", "opt_mut"}
    THEN arch_get_component(st, index, Unwrap(get_component_id(cf, term.type)), FALSE)
    ELSE IF term.kind = "entity" THEN st.entities[index + 1]
    ELSE IF term.kind = "has" THEN contains_archetype(st, cf, term.arch)
    ELSE IF term.kind = "not" THEN ~collapse(term.sub, fetch(st, index, cf, term.sub))
    ELSE IF term.kind = "or" THEN filter_any(term.sub, fetch(st, index, cf, term.sub))
    ELSE [k \in 1..Len(term.subs) |-> fetch(st, index, cf, term.subs[k])]

\* TRUE iff the fetch of the term panics: a component term whose component is
\* not registered fails its expect("Can't query unregistered component").
RECURSIVE fetch_panics(_, _)
fetch_panics(cf, term) ==
    IF term.kind \in {"ref", "mut", "opt", "opt_mut"}
    THEN ~IsSome(get_component_id(cf, term.type))
    ELSE IF term.kind \in {"not", "or"} THEN fetch_panics(cf, term.sub)
    ELSE IF term.kind = "tuple"
    THEN \E k \in 1..Len(term.subs) : fetch_panics(cf, term.subs[k])
    ELSE FALSE

\* The rows the iterator of a query visits, in its order: for each storage of
\* iter_storages_with_matching_archetype, in turn, its iter_indices; each row
\* is <<storage id, row index>>.
query_rows(ss, pkey) ==
    Then(iter_storages_with_matching_archetype(ss, pkey), LAMBDA sids :
        FlattenSeq([n \in 1..Len(sids) |->
            Then(iter_indices(ss.storages[sids[n] + 1]), LAMBDA rows :
                [r \in 1..Len(rows) |-> <<sids[n], rows[r]>>])]))

\* ArchQuery::iter_query_matches::<Q>, the iterator consumed to its end:
\* [panic, rows, items].  panic is "" when the call and the iteration
\* complete; a panic of the key computation happens at the call and leaves no
\* item; a panic of fetch happens at the first row.
arch_iter_query_matches(ss, cf, Q, checks) ==
    Then(query_prime_key(cf, Q, checks), LAMBDA acc :
        IF acc.panic # "" THEN [panic |-> acc.panic, rows |-> <<>>, items |-> <<>>]
        ELSE Then(query_rows(ss, acc.pkey), LAMBDA rows :
            IF rows # <<>> /\ fetch_panics(cf, Q)
            THEN [panic |-> "unregistered", rows |-> <<>>, items |-> <<>>]
            ELSE [panic |-> "", rows |-> rows,
                  items |-> [r \in 1..Len(rows) |->
                      fetch(ss.storages[rows[r][1] + 1], rows[r][2], cf, Q)]]))

\* ArchQuery::iter_filtered_query_matches::<Q, F>: the rows of the query on
\* which the filter collapses to true.  then_some takes the fetched item by
\* value, so Q is fetched on the rows the filter rejects as well.
RECURSIVE filter_rows(_, _, _, _, _)
filter_rows(ss, cf, F, rows, i) ==
    IF i > Len(rows) THEN <<>>
    ELSE Then(filter_rows(ss, cf, F, rows, i + 1), LAMBDA rest :
            IF collapse(F, fetch(ss.storages[rows[i][1] + 1], rows[i][2], cf, F))
            THEN <<rows[i]>> \o rest ELSE rest)

arch_iter_filtered_query_matches(ss, cf, Q, F, checks) ==
    Then(query_prime_key(cf, Q, checks), LAMBDA acc :
        IF acc.panic # "" THEN [panic |-> acc.panic, rows |-> <<>>, items |-> <<>>]
        ELSE Then(query_rows(ss, acc.pkey), LAMBDA all_rows :
            IF all_rows # <<>> /\ (fetch_panics(cf, Q) \/ fetch_panics(cf, F))
            THEN [panic |-> "unregistered", rows |-> <<>>, items |-> <<>>]
            ELSE Then(filter_rows(ss, cf, F, all_rows, 1), LAMBDA rows :
                [panic |-> "", rows |-> rows,
                 items |-> [r \in 1..Len(rows) |->
                     fetch(ss.storages[rows[r][1] + 1], rows[r][2], cf, Q)]])))

\* World::query::<Q> and World::query_filtered::<Q, F>
world_query(w, Q, checks) == arch_iter_query_matches(w.ss, w.cf, Q, checks)
world_query_filtered(w, Q, F, checks) ==
    arch_iter_filtered_query_matches(w.ss, w.cf, Q, F, checks)

\* ------------------------------------------------------------------------
\* BlobVec (storage/blob_vec.rs): a type-erased column.  A BlobVec is
\* [item_layout, capacity, len, data, drop]: data lists the values of the
\* initialized range (the first len items, a value is named by a number)
\* and drop is TRUE iff a drop function was given.  usize is scaled down to
\* 0..UsizeMax.  An operation returns [vec, panic, dropped]: the column it
\* leaves, the panic message ("" if it returned) and the values the drop
\* function was called on.  A call of the drop function runs the code of
\* the stored type, so it may panic: that is an input of the operations
\* that call it.
\* ------------------------------------------------------------------------
UsizeMax == 7
Layout(size, align) == [size |-> size, align |-> align]
Returned(vec) == [vec |-> vec, panic |-> "", dropped |-> <<>>]
Unwound(vec, msg, dropped) == [vec |-> vec, panic |-> msg, dropped |-> dropped]
DropPanic == "drop fn panicked"

padding_needed_for(layout, align) ==
    (((layout.size + align - 1) \div align) * align) - layout.size

\* repeat_layout: checked_mul of the padded size and n.
repeat_layout(layout, n) ==
    Then(layout.size + padding_needed_for(layout, layout.align), LAMBDA padded_size :
        IF padded_size * n > UsizeMax THEN None
        ELSE Some([layout |-> Layout(padded_size * n, layout.align),
                   offset |-> padded_size]))

array_layout(layout, n) ==
    Then(repeat_layout(layout, n), LAMBDA r :
        IF IsSome(r) THEN Some(Unwrap(r).layout) ELSE None)

\* BlobVec::grow_exact: capacity is assigned last, a panic leaves self as it was.
grow_exact(self, increment) ==
    IF self.capacity + increment > UsizeMax
    THEN Unwound(self, "capacity overflow", <<>>)
    ELSE IF ~IsSome(array_layout(self.item_layout, self.capacity + increment))
    THEN Unwound(self, "array layout should be valid", <<>>)
    ELSE Returned([self EXCEPT !.capacity = self.capacity + increment])

\* A reserve that never grows the allocation.
reserve_nothing(self, additional) == Returned(self)

\* BlobVec::reserve_exact
reserve_exact(self, additional) ==
    IF self.capacity - self.len < additional
    THEN grow_exact(self, additional - (self.capacity - self.len))
    ELSE Returned(self)

\* A reserve that grows by what is missing and no more.
reserve_needed(self, additional) == reserve_exact(self, additional)

\* BlobVec::reserve with its inner do_reserve
reserve(self, additional) ==
    IF self.capacity - self.len < additional
    THEN Then(additional - (self.capacity - self.len), LAMBDA needed :
            grow_exact(self, IF self.capacity > needed THEN self.capacity ELSE needed))
    ELSE Returned(self)

\* BlobVec::new: a zero-sized layout gets capacity usize::MAX, any other
\* layout starts at capacity 0 and reserves exactly `capacity`.
BlobVec_new(item_layout, drop, capacity) ==
    IF item_layout.size = 0
    THEN Returned([item_layout |-> item_layout, capacity |-> UsizeMax, len |-> 0,
                   data |-> <<>>, drop |-> drop])
    ELSE reserve_exact([item_layout |-> item_layout, capacity |-> 0, len |-> 0,
                        data |-> <<>>, drop |-> drop], capacity)

\* BlobVec::initialize_unchecked: the value is copied to the item at index.
initialize_unchecked(self, index, value) ==
    [self EXCEPT !.data = [i \in 1..self.len |->
                              IF i = index + 1 THEN value ELSE self.data[i]]]

\* BlobVec::push
push(self, value) ==
    Then(reserve(self, 1), LAMBDA r :
        IF r.panic # "" THEN r
        ELSE Returned(initialize_unchecked(
                 [r.vec EXCEPT !.len = r.vec.len + 1, !.data = Append(r.vec.data, 0)],
                 r.vec.len, value)))

\* A remove that closes the gap by shifting the items after index down.
shift_remove_and_forget(self, index) ==
    [vec |-> [self EXCEPT !.len = self.len - 1,
                          !.data = [i \in 1..(self.len - 1) |->
                                       IF i < index + 1 THEN self.data[i]
                                       ELSE self.data[i + 1]]],
     value |-> self.data[index + 1]]

\* BlobVec::swap_remove_and_forget_unchecked: the item at index and the
\* last item change places, len drops by one, the last item is returned.
swap_remove_and_forget_unchecked(self, index) ==
    Then(self.len - 1, LAMBDA new_len :
    Then([i \in 1..self.len |->
            IF i = index + 1 THEN self.data[new_len + 1]
            ELSE IF i = new_len + 1 THEN self.data[index + 1]
            ELSE self.data[i]], LAMBDA swapped :
        [vec |-> [self EXCEPT !.len = new_len, !.data = SubSeq(swapped, 1, new_len)],
         value |-> swapped[new_len + 1]]))

\* A swap-remove that drops the removed value twice.
swap_remove_and_drop_twice(self, index, drop_panics) ==
    Then(swap_remove_and_forget_unchecked(self, index), LAMBDA r :
        Unwound(r.vec, "", <<r.value, r.value>>))

\* BlobVec::swap_remove_and_drop_unchecked
swap_remove_and_drop_unchecked(self, index, drop_panics) ==
    Then(swap_remove_and_forget_unchecked(self, index), LAMBDA r :
        IF self.drop
        THEN Unwound(r.vec, IF drop_panics THEN DropPanic ELSE "", <<r.value>>)
        ELSE Returned(r.vec))

\* A replace_unchecked that leaves len as it was while the old value is
\* dropped.
replace_keeping_len(self, index, value, drop_panics) ==
    IF self.drop /\ drop_panics
    THEN Unwound(self, DropPanic, <<self.data[index + 1], value>>)
    ELSE Unwound([self EXCEPT !.data[index + 1] = value], "",
                 IF self.drop THEN <<self.data[index + 1]>> ELSE <<>>)

\* BlobVec::replace_unchecked: with a drop function, len is 0 while the old
\* value is dropped; if that call panics the new value is dropped on the
\* unwind and len stays 0, so every other item is forgotten.
replace_unchecked(self, index, value, drop_panics) ==
    IF self.drop /\ drop_panics
    THEN Unwound([self EXCEPT !.len = 0, !.data = <<>>], DropPanic,
                 <<self.data[index + 1], value>>)
    ELSE Unwound([self EXCEPT !.data[index + 1] = value], "",
                 IF self.drop THEN <<self.data[index + 1]>> ELSE <<>>)

\* BlobVec::clear: len is 0 before the first call of the drop function; the
\* loop ends at the first call that panics (panic_at counts from 1, 0 is
\* no panic).
clear(self, panic_at) ==
    IF self.drop
    THEN Unwound([self EXCEPT !.len = 0, !.data = <<>>],
                 IF panic_at = 0 THEN "" ELSE DropPanic,
                 SubSeq(self.data, 1, IF panic_at = 0 THEN self.len ELSE panic_at))
    ELSE Returned([self EXCEPT !.len = 0, !.data = <<>>])

\* <BlobVec as Drop>::drop: clear, then the allocation is returned.
BlobVec_drop(self, panic_at) ==
    Then(clear(self, panic_at), LAMBDA r :
        IF r.panic # "" THEN r
        ELSE IF ~IsSome(array_layout(self.item_layout, self.capacity))
        THEN Unwound(r.vec, "array layout should be valid", r.dropped)
        ELSE r)

\* The column variable: the BlobVec (None before BlobVec::new and after its
\* destruction), the number of values moved into it, the number of calls of
\* the drop function on each value, whether a call of it has panicked, and
\* the panic message of the last operation; dropfn is TRUE iff the column
\* was made with a drop function.
MaxValues == 3
NoColumn == [vec |-> None, dropfn |-> FALSE, moved_in |-> 0,
             drop_calls |-> [v \in 1..MaxValues |-> 0],
             drop_panicked |-> FALSE, destroyed |-> FALSE, panic |-> ""]

\* ------------------------------------------------------------------------
\* State of the model as the values the operators take.
\* ------------------------------------------------------------------------
Registry == [type_map |-> type_map, components |-> components]
Entities == [generations |-> generations, queued_entitys |-> queued_entitys,
             entity_metas |-> entity_metas, entities |-> entities]
Catalog == [storages |-> storages, pkeys |-> pkeys]
World == [cf |-> Registry, ef |-> Entities, ss |-> Catalog]

\* World::new / Default: everything empty.
InitWorld ==
    /\ generations = <<>> /\ queued_entitys = <<>> /\ entity_metas = <<>> /\ entities = 0
    /\ storages = <<>> /\ pkeys = <<>>
    /\ spawned = <<>> /\ despawned = {}
    /\ blob = NoColumn
InitKeys == archA = <<>> /\ archB = <<>> /\ keys = <<>>
NoCall == [op |-> "new", entity |-> None, bundle |-> <<>>, panic |-> FALSE]

\* ------------------------------------------------------------------------
\* Spec: a World under World::spawn and World::despawn.
\* ------------------------------------------------------------------------
\* Component types A and B.
CompTypes == {1, 2}

\* The tuples a spawn is called with: (), (A,), (B,), (A, B), (B, A), and
\* the tuples that name A twice, (A, A) and (A, A, B).
BundleShapes == {<<>>, <<1>>, <<2>>, <<1, 2>>, <<2, 1>>, <<1, 1>>, <<1, 1, 2>>}

\* The bundle of the n-th spawn call: its k-th component carries 10n + k, so
\* that no two components ever given to the world carry the same value.
BundleOf(shape, n) == [k \in 1..Len(shape) |-> [type |-> shape[k], val |-> 10 * n + k]]

\* The handles spawn has returned, and those of them not despawned since.
Handles == {spawned[k].e : k \in 1..Len(spawned)}
LiveHandles == Handles \ despawned

SetWorld(w) ==
    /\ type_map' = w.cf.type_map /\ components' = w.cf.components
    /\ generations' = w.ef.generations /\ queued_entitys' = w.ef.queued_entitys
    /\ entity_metas' = w.ef.entity_metas /\ entities' = w.ef.entities
    /\ storages' = w.ss.storages /\ pkeys' = w.ss.pkeys

Init ==
    /\ InitWorld /\ InitKeys
    /\ type_map = <<>> /\ components = <<>>
    /\ ret = NoCall /\ overflow_checks = FALSE

\* world.spawn(bundle)
Spawn(shape) ==
    /\ Len(spawned) < MaxSpawns
    /\ \E w \in {World}, bundle \in {BundleOf(shape, Len(spawned) + 1)} :
         \E r \in {spawn(w, bundle)} :
            /\ SetWorld(r.w)
            /\ spawned' = IF r.panic THEN spawned
                          ELSE Append(spawned, [e |-> Unwrap(r.id), bundle |-> bundle])
            /\ ret' = [op |-> "spawn", entity |-> r.id, bundle |-> bundle, panic |-> r.panic]
    /\ UNCHANGED <<despawned, overflow_checks, archA, archB, keys, blob>>

\* world.despawn(entity), for a handle some spawn has returned.  A call that
\* panics leaves the world as it was.  A call for a row that some column of
\* the storage does not hold (the columns of a storage made for a tuple that
\* names a component twice) is outside the precondition of the unchecked
\* column removal and is not taken.
Despawn(entity) ==
    /\ entity \in Handles
    /\ \E w \in {World} :
         IF despawn_panics(w, entity)
         THEN /\ ret' = [op |-> "despawn", entity |-> Some(entity), bundle |-> <<>>,
                         panic |-> TRUE]
              /\ UNCHANGED <<type_map, components, generations, queued_entitys, entity_metas,
                             entities, storages, pkeys, despawned>>
         ELSE /\ \E m \in {Unwrap(get_entity_meta(w.ef, entity))} :
                    RowInEveryColumn(w.ss.storages[m.sid + 1], m.idx)
              /\ SetWorld(despawn(w, entity))
              /\ despawned' = despawned \cup {entity}
              /\ ret' = [op |-> "despawn", entity |-> Some(entity), bundle |-> <<>>,
                         panic |-> FALSE]
    /\ UNCHANGED <<spawned, overflow_checks, archA, archB, keys, blob>>

Next ==
    \/ \E shape \in BundleShapes : Spawn(shape)
    \/ \E entity \in Handles : Despawn(entity)

Spec == Init /\ [][Next]_vars

\* ------------------------------------------------------------------------
\* Properties of Spec
\* ------------------------------------------------------------------------
SeqToSet(sq) == {sq[k] : k \in 1..Len(sq)}

\* The value a bundle gives to its component of type C.
ValueOf(bundle, C) == bundle[CHOOSE k \in 1..Len(bundle) : bundle[k].type = C].val

\* The bundle the handle was spawned with.
BundleOfHandle(e) == spawned[CHOOSE k \in 1..Len(spawned) : spawned[k].e = e].bundle

AllSpawnedDuplicateFree ==
    \A k \in 1..Len(spawned) : IsDuplicateFree(ArchOf(spawned[k].bundle))

\* C1: metadata consistency.  After any sequence of spawn and despawn calls,
\* every live entity e whose metadata is (s, r) is the entity that row r of
\* storage s records: storages[s].entity_at(r) = e.
C1_MetadataConsistency ==
    \A e \in LiveHandles :
        LET meta == get_entity_meta(Entities, e)
        IN  /\ IsSome(meta)
            /\ IsSome(get_storage(Catalog, Unwrap(meta).sid))
            /\ get_entity_at(storages[Unwrap(meta).sid + 1], Unwrap(meta).idx) = Some(e)

\* C2: spawn-then-read.  Right after spawn(B) has returned a handle, for a
\* bundle B that names no component twice, get_component<C> of that handle
\* returns the value B gave to C, for every component C of B.
C2_SpawnThenRead ==
    (ret.op = "spawn" /\ ~ret.panic /\ IsDuplicateFree(ArchOf(ret.bundle))) =>
        \A k \in 1..Len(ret.bundle) : \A debug_assertions \in BOOLEAN :
            get_component(World, Unwrap(ret.entity), ret.bundle[k].type, debug_assertions)
                = Some(ret.bundle[k].val)

\* C3: once despawn(e) has succeeded, the handle e is not live in any later
\* state: verify_generation(e) is false and get_component<C>(e) is None for
\* every C, also after later spawns have reused the slot of e.
C3_DespawnedNeverLive ==
    \A e \in despawned :
        /\ ~verify_generation(Entities, e)
        /\ \A C \in CompTypes : \A debug_assertions \in BOOLEAN :
              get_component(World, e, C, debug_assertions) = None

\* A despawned handle whose slot a later spawn has given to a live entity.
C3_Witness ==
    \E e \in despawned : \E h \in LiveHandles : h.id = e.id /\ h.gen > e.gen

\* What the query for (EntityId, &C) has to yield: one item for each live
\* entity whose bundle has a C, with the value that bundle gave to C.
QueryExpected(C) ==
    {<<e, ValueOf(BundleOfHandle(e), C)>> :
        e \in {h \in LiveHandles : C \in TypesOf(ArchOf(BundleOfHandle(h)))}}

\* C4: after any sequence of spawns (of bundles that name no component
\* twice) and despawns, the query for the entity handle together with &C
\* yields exactly one item for each live entity whose archetype contains C,
\* carrying that entity's own value of C, and no item for a despawned entity.
C4_QueryYieldsLiveEntities ==
    AllSpawnedDuplicateFree =>
        \A C \in CompTypes :
            is_registered(Registry, C) =>
                /\ Len(query(World, C)) = Cardinality(QueryExpected(C))
                /\ SeqToSet(query(World, C)) = QueryExpected(C)

\* C5: a despawn(e) that succeeds leaves every other live entity live and
\* leaves what get_component<C> returns for it unchanged, for every C.
C5_DespawnFrame ==
    [][(ret'.op = "despawn" /\ ~ret'.panic /\ despawned' # despawned) =>
          \A other \in LiveHandles \ {Unwrap(ret'.entity)} :
              /\ verify_generation(Entities', other)
              /\ \A C \in CompTypes : \A debug_assertions \in BOOLEAN :
                    get_component(World', other, C, debug_assertions)
                        = get_component(World, other, C, debug_assertions)]_vars

\* C6: a spawn of a bundle that names a component type twice, such as
\* (A(0), A(1)) or (A(0), A(1), B), panics and stores no row.
C6_DuplicateSpawnPanics ==
    (ret.op = "spawn" /\ ~IsDuplicateFree(ArchOf(ret.bundle))) => ret.panic

\* C7: storage width uniformity.  After every spawn and every despawn, in
\* every storage each column is as long as the entity vector and as len().
C7_WidthUniformity ==
    \A i \in 1..Len(storages) :
        /\ Len(storages[i].entities) = storages[i].len
        /\ \A c \in 1..Len(storages[i].comp_storage) :
              Len(storages[i].comp_storage[c]) = Len(storages[i].entities)

\* C9: archetype uniqueness.  After any sequence of spawns no two storages
\* of the catalog have the same key, and a spawn whose bundle has the
\* component set of an existing storage, in any component order, has reused
\* that storage: there are as many storages as component sets spawned.
C9_ArchetypeUniqueness ==
    /\ \A i, j \in 1..Len(pkeys) : i # j => pkeys[i] # pkeys[j]
    /\ Len(storages) = Len(pkeys)
    /\ Len(storages)
         = Cardinality({TypesOf(ArchOf(spawned[k].bundle)) : k \in 1..Len(spawned)})

\* ------------------------------------------------------------------------
\* SpecReg: a ComponentFactory under register_component, offered
\* MAX_COMPONENTS + ExtraTypes types.  The types are told apart only by the
\* order of their first registration, so a first registration is that of
\* the lowest type not yet offered.
\* ------------------------------------------------------------------------
RegTypes == 1..(MAX_COMPONENTS + ExtraTypes)

InitReg ==
    /\ InitWorld /\ InitKeys
    /\ type_map = <<>> /\ components = <<>>
    /\ ret = NoCall /\ overflow_checks = FALSE

\* comp_factory.register_component::<C>()
Register(C) ==
    /\ C \in RegTypes
    /\ C <= Len(components) + 1
    /\ \E cf \in {Registry} : \E r \in {register_component(cf, C)} :
          /\ type_map' = r.cf.type_map
          /\ components' = r.cf.components
          /\ ret' = [op |-> "register", type |-> C, out |-> r.ret,
                     was_full |-> Len(cf.components) >= MAX_COMPONENTS]
    /\ UNCHANGED <<generations, queued_entitys, entity_metas, entities, storages, pkeys,
                   spawned, despawned, overflow_checks, archA, archB, keys, blob>>

NextReg == \E C \in RegTypes : Register(C)
SpecReg == InitReg /\ [][NextReg]_vars

\* The components the registry held when it reached MAX_COMPONENTS.
HeldAtLimit == {components[k] : k \in 1..MAX_COMPONENTS}

\* C8: when the registry already holds MAX_COMPONENTS components, a register
\* call for a type that is not among them returns None, on the first such
\* call and on every repeated call for that type.
C8_RegisterAtLimitFails ==
    (ret.op = "register" /\ ret.was_full /\ ret.type \notin HeldAtLimit) => ret.out = None

\* ------------------------------------------------------------------------
\* SpecKey: the keys of two archetypes over a registry that holds
\* MAX_COMPONENTS components (type t has ComponentId t - 1).
\* ------------------------------------------------------------------------
RECURSIVE RegisterAll(_, _, _)
RegisterAll(cf, t, last) ==
    IF t > last THEN cf ELSE RegisterAll(register_component(cf, t).cf, t + 1, last)

FullFactory == RegisterAll(EmptyFactory, 1, MAX_COMPONENTS)

Interval(lo, n) == [k \in 1..n |-> lo + k - 1]
Reversed(sq) == [k \in 1..Len(sq) |-> sq[Len(sq) + 1 - k]]

\* Archetypes A: the flat tuples (at most MAX_TUPLE components) of consecutive
\* components that start at the first or end at the last component, listed
\* in ascending or in descending order.
KeyArchsA ==
    LET up == {Interval(1, n) : n \in 0..MAX_TUPLE}
                \cup {Interval(MAX_COMPONENTS - n + 1, n) : n \in 1..MAX_TUPLE}
    IN  up \cup {Reversed(a) : a \in up}

\* Archetypes B: runs of at most MaxSubLen consecutive components.
KeyArchsB ==
    LET runs == {Interval(lo, n) : lo \in 1..MAX_COMPONENTS, n \in 0..MaxSubLen}
    IN  {b \in runs : \A k \in 1..Len(b) : b[k] <= MAX_COMPONENTS}

InitKey ==
    /\ InitWorld /\ ret = NoCall
    /\ type_map = FullFactory.type_map /\ components = FullFactory.components
    /\ overflow_checks \in BOOLEAN
    /\ archA \in KeyArchsA
    /\ archB \in KeyArchsB
    /\ keys = <<>>

\* Archetype::prime_key of both archetypes; in a build with overflow checks
\* a product that leaves 64 bits panics.
ComputeKeys ==
    /\ keys = <<>>
    /\ \E cf \in {Registry}, a \in {archA}, b \in {archB}, checks \in {overflow_checks} :
          keys' = [a |-> prime_key(cf, a), b |-> prime_key(cf, b),
                   panic |-> checks /\ (prime_key_overflows(cf, a)
                                           \/ prime_key_overflows(cf, b))]
    /\ UNCHANGED <<type_map, components, generations, queued_entitys, entity_metas,
                   entities, storages, pkeys, spawned, despawned, ret, overflow_checks,
                   archA, archB, blob>>

NextKey == ComputeKeys
SpecKey == InitKey /\ [][NextKey]_vars

\* C10: prime-key correctness.  Once the keys of two duplicate-free sets A
\* and B of registered components are computed, key(A) % key(B) = 0 iff
\* every component of B is in A, and key(A) = key(B) iff A and B are the
\* same set, in whatever order the components are listed.
C10_PrimeKeyCorrectness ==
    keys # <<>> =>
        /\ ~keys.panic
        /\ is_sub_archetype(Unwrap(keys.a), Unwrap(keys.b))
              <=> (TypesOf(archB) \subseteq TypesOf(archA))
        /\ is_exact_archetype(Unwrap(keys.a), Unwrap(keys.b))
              <=> (TypesOf(archB) = TypesOf(archA))

\* C11: for every duplicate-free archetype of up to MAX_COMPONENTS components
\* keyed by the first MAX_COMPONENTS primes, the product of the prime keys
\* fits in the unsigned 64-bit key: no key computed is the result of an
\* overflow or wrap-around.
C11_KeyFitsIn64Bits ==
    keys # <<>> =>
        /\ ~prime_key_overflows(Registry, archA)
        /\ ~prime_key_overflows(Registry, archB)


\* ------------------------------------------------------------------------
\* SpecQuery: the call that creates the iterator of a query of required
\* terms, in a world with all MAX_COMPONENTS components registered.
\* ------------------------------------------------------------------------
\* all_tuples!(impl_comp_query_for_tuple, 0, 12, Q): the longest flat tuple
\* of terms.
MAX_QUERY_TUPLE == 12

\* The component types of the terms: a run of consecutive components that
\* starts at the first or ends at the last component, and one more term for
\* any component, which repeats a component of the run or does not.
QueryTypes ==
    LET runs == {Interval(1, n) : n \in 0..(MAX_QUERY_TUPLE - 1)}
                  \cup {Interval(MAX_COMPONENTS - n + 1, n) : n \in 1..(MAX_QUERY_TUPLE - 1)}
    IN  {Append(run, C) : run \in runs, C \in 1..MAX_COMPONENTS}

\* The query of the state: &C for each type of archA, the last term &mut C
\* when archB says so.
QueryOf(types, muts) ==
    Tuple([k \in 1..Len(types) |->
              IF k = Len(types) /\ muts = <<1>> THEN Mut(types[k]) ELSE Ref(types[k])])

InitQuery ==
    /\ InitWorld /\ ret = NoCall
    /\ type_map = FullFactory.type_map /\ components = FullFactory.components
    /\ overflow_checks \in BOOLEAN
    /\ archA \in QueryTypes
    /\ archB \in {<<0>>, <<1>>}
    /\ keys = <<>>

\* World::query::<Q>() for the query of the state, the iterator consumed.
CreateQuery ==
    /\ keys = <<>>
    /\ \E w \in {World}, Q \in {QueryOf(archA, archB)}, checks \in {overflow_checks} :
          keys' = world_query(w, Q, checks)
    /\ UNCHANGED <<type_map, components, generations, queued_entitys, entity_metas,
                   entities, storages, pkeys, spawned, despawned, ret, overflow_checks,
                   archA, archB, blob>>

NextQuery == CreateQuery
SpecQuery == InitQuery /\ [][NextQuery]_vars

\* C12: a query whose required terms name the same component twice, such as
\* (&B, &B) or (&C, &mut C), panics at the call that creates the iterator,
\* before any row is yielded.
C12_DuplicateTermsPanic ==
    (keys # <<>> /\ ~IsDuplicateFree(archA)) =>
        keys.panic # "" /\ keys.items = <<>>

\* C13: despawn(e) for a handle that is not live (e was despawned before)
\* panics before it changes anything: no row is removed, no generation
\* changes, the queue of free slots and the count of live entities stay as
\* they were.
C13_StaleDespawnPanics ==
    [][\A e \in despawned :
          (ret'.op = "despawn" /\ ret'.entity = Some(e) /\ ret' # ret) =>
              /\ ret'.panic
              /\ UNCHANGED <<generations, queued_entitys, entity_metas, entities,
                             storages, pkeys, type_map, components>>]_vars

\* A despawn of an already despawned handle has been called, in a world that
\* has live entities and a queue of free slots.
C13_Witness ==
    /\ ret.op = "despawn" /\ ret.panic
    /\ ret.entity # None /\ Unwrap(ret.entity) \in despawned
    /\ entities > 0 /\ queued_entitys # <<>>

\* C14: register-idempotent.  A register call for a type that is already
\* registered adds no descriptor and returns the ComponentId the type has,
\* which is what the call before it returned for that type; and the id of a
\* registered type is the same after any register call.
C14_RegisterIdempotent ==
    [][\A C \in RegTypes :
          is_registered(Registry, C) =>
              /\ get_component_id(Registry', C) = get_component_id(Registry, C)
              /\ (ret'.op = "register" /\ ret'.type = C) =>
                    /\ components' = components /\ type_map' = type_map
                    /\ ret'.out = get_component_id(Registry, C)
                    /\ (ret.op = "register" /\ ret.type = C) => ret'.out = ret.out]_vars

\* The k-th prime (k = 0, 1, 2, ...), by trial division.
IsPrime(n) == n >= 2 /\ \A d \in 2..(n - 1) : d * d > n \/ n % d # 0

RECURSIVE NextPrimeAfter(_)
NextPrimeAfter(n) == IF IsPrime(n + 1) THEN n + 1 ELSE NextPrimeAfter(n + 1)

RECURSIVE NthPrime(_)
NthPrime(k) == IF k = 0 THEN NextPrimeAfter(0) ELSE NextPrimeAfter(NthPrime(k - 1))

\* C15: the k-th distinct component type registered (k = 0, 1, 2, ...) has
\* ComponentId k, that id has a prime key, which is the k-th prime, and two
\* distinct registered types never share an id.  (In SpecReg the k-th
\* distinct type to be registered is type k + 1.)
C15_KthTypeKthPrime ==
    /\ \A C \in RegTypes :
          is_registered(Registry, C) =>
              /\ get_component_id(Registry, C) = Some(C - 1)
              /\ C - 1 < MAX_COMPONENTS
              /\ comp_prime_key(C - 1) = U64OfSmall(NthPrime(C - 1))
    /\ \A C, D \in RegTypes :
          (is_registered(Registry, C) /\ is_registered(Registry, D) /\ C # D) =>
              get_component_id(Registry, C) # get_component_id(Registry, D)

\* ------------------------------------------------------------------------
\* SpecWide: a World whose registry holds MAX_COMPONENTS components (type t
\* has ComponentId t - 1), under World::spawn of bundles of up to ten
\* components and World::despawn, in a build with or without overflow
\* checks.
\* ------------------------------------------------------------------------
\* Component types named by the bundles and by the queries on this world.
WideA == 1
WideB == 21
WideC == 30

\* The tuples a spawn is called with: (A,), (B,), (A, B), (B, C) and the
\* ten-tuple of the components of highest id, which has B and C.
WideShapes == {<<WideA>>, <<WideB>>, <<WideA, WideB>>, <<WideB, WideC>>,
               Interval(WideB, WideC - WideB + 1)}

InitWide ==
    /\ InitWorld /\ InitKeys
    /\ type_map = FullFactory.type_map /\ components = FullFactory.components
    /\ ret = NoCall
    /\ overflow_checks \in BOOLEAN

\* world.spawn(bundle).  In a build with overflow checks the call panics in
\* Archetype::get_prime_key_or_register when the product leaves 64 bits; the
\* components are registered already, so nothing has changed by then.
SpawnWide(shape) ==
    /\ Len(spawned) < MaxSpawns
    /\ \E w \in {World}, bundle \in {BundleOf(shape, Len(spawned) + 1)} :
         IF overflow_checks /\ prime_key_overflows(w.cf, shape)
         THEN /\ ret' = [op |-> "spawn", entity |-> None, bundle |-> bundle, panic |-> TRUE]
              /\ UNCHANGED <<type_map, components, generations, queued_entitys,
                             entity_metas, entities, storages, pkeys, spawned>>
         ELSE \E r \in {spawn(w, bundle)} :
                /\ SetWorld(r.w)
                /\ spawned' = IF r.panic THEN spawned
                              ELSE Append(spawned, [e |-> Unwrap(r.id), bundle |-> bundle])
                /\ ret' = [op |-> "spawn", entity |-> r.id, bundle |-> bundle,
                           panic |-> r.panic]
    /\ UNCHANGED <<despawned, overflow_checks, archA, archB, keys, blob>>

NextWide ==
    \/ \E shape \in WideShapes : SpawnWide(shape)
    \/ \E entity \in Handles : Despawn(entity)

SpecWide == InitWide /\ [][NextWide]_vars

\* The component types a query requires: those of its &C and &mut C terms.
RECURSIVE RequiredTypes(_)
RequiredTypes(term) ==
    IF term.kind \in {"ref", "mut"} THEN {term.type}
    ELSE IF term.kind = "tuple"
    THEN UNION {RequiredTypes(term.subs[k]) : k \in 1..Len(term.subs)}
    ELSE {}

\* The component types of a storage: those whose id has a column.
StorageTypes(st) == {C \in DOMAIN type_map : type_map[C] \in DOMAIN st.comp_indexes}

\* The rows of the storages whose archetype contains every type of req.
RowsOfStoragesWith(req) ==
    {<<sid, r>> : sid \in {s \in 0..(Len(storages) - 1) : req \subseteq StorageTypes(storages[s + 1])},
                  r \in 0..(MaxSpawns - 1)}
       \cap {row \in (0..(Len(storages) - 1)) \X (0..(MaxSpawns - 1)) :
                row[2] < storages[row[1] + 1].len}

\* Queries on the wide world: required, optional, Has and entity terms.
WideQueries ==
    {Tuple(<<Ref(WideA)>>), Tuple(<<Ref(WideB)>>), Tuple(<<Mut(WideC)>>),
     Tuple(<<Ref(WideB), Ref(WideC)>>),
     Tuple(<<EntityTerm, Ref(WideB), Opt(WideA)>>),
     Tuple(<<EntityTerm, Opt(WideA), OptMut(WideC)>>),
     Tuple(<<Has(<<WideA>>), Ref(WideB)>>),
     Tuple(<<EntityTerm>>)}

\* C16: a query visits exactly the rows of the storages whose archetype
\* contains every required (&C or &mut C) component of the query; optional
\* terms, Has terms and the entity-handle term exclude no storage; and an
\* optional term Option<&C> yields Some on a row iff the row's storage has
\* component C.
C16_QueryVisitsMatchingStorages ==
    \A Q \in WideQueries :
        LET res == world_query(World, Q, overflow_checks)
        IN  /\ res.panic = ""
            /\ Len(res.rows) = Cardinality(RowsOfStoragesWith(RequiredTypes(Q)))
            /\ SeqToSet(res.rows) = RowsOfStoragesWith(RequiredTypes(Q))
            /\ \A n \in 1..Len(res.rows) : \A k \in 1..Len(Q.subs) :
                  Q.subs[k].kind \in {"opt", "opt_mut"} =>
                      (IsSome(res.items[n][k])
                          <=> Q.subs[k].type \in StorageTypes(storages[res.rows[n][1] + 1]))

\* What a filter is on a row of storage st: Has<A> is true iff the types of
\* A are among the storage's, Not<F> is the negation of F, Or<(F1, F2, ...)>
\* is true iff some Fi is, and a tuple of filters is true iff every one is.
RECURSIVE FilterTruth(_, _)
FilterTruth(F, st) ==
    IF F.kind = "has" THEN TypesOf(F.arch) \subseteq StorageTypes(st)
    ELSE IF F.kind = "not" THEN ~FilterTruth(F.sub, st)
    ELSE IF F.kind = "or"
    THEN IF F.sub.kind = "tuple"
         THEN \E k \in 1..Len(F.sub.subs) : FilterTruth(F.sub.subs[k], st)
         ELSE FilterTruth(F.sub, st)
    ELSE \A k \in 1..Len(F.subs) : FilterTruth(F.subs[k], st)

\* Queries and filters on the world of Spec, over the component types A and
\* B: Has, Not, tuples, Or of filters and Or of tuples of filters ("A and not
\* B, or B and not A").
FilteredQueries ==
    {Tuple(<<EntityTerm>>), Tuple(<<Ref(1)>>), Tuple(<<EntityTerm, Opt(2)>>)}

QueryFilters ==
    {Has(<<1>>), Not(Has(<<2>>)), Has(<<1, 2>>),
     Tuple(<<Has(<<1>>), Not(Has(<<2>>))>>),
     Or(Tuple(<<Has(<<1>>), Has(<<2>>)>>)),
     Not(Or(Tuple(<<Has(<<1>>), Has(<<2>>)>>))),
     Or(Tuple(<<Tuple(<<Has(<<1>>), Not(Has(<<2>>))>>),
                Tuple(<<Has(<<2>>), Not(Has(<<1>>))>>)>>))}

\* C17: with the components the query and the filter name registered,
\* query_filtered<Q, F> yields exactly the sub-sequence of the rows of
\* query<Q> on which F is true, where a tuple of filters is their AND,
\* Or<(F1, F2, ...)> is true iff some Fi is true, Not<F> is the negation of
\* F, and Has<A> is true iff the row's storage archetype contains A.
C17_FilteredIsSubsequence ==
    (\A C \in CompTypes : is_registered(Registry, C)) =>
        \A Q \in FilteredQueries : \A F \in QueryFilters :
            LET all == world_query(World, Q, overflow_checks)
                res == world_query_filtered(World, Q, F, overflow_checks)
            IN  /\ res.panic = "" /\ all.panic = ""
                /\ res.rows = SelectSeq(all.rows,
                                  LAMBDA row : FilterTruth(F, storages[row[1] + 1]))

\* Queries asked of the world before its first spawn: with required terms,
\* and with optional, Has and entity terms only.
EmptyWorldQueries ==
    {Tuple(<<Ref(1)>>), Tuple(<<Mut(2)>>), Tuple(<<Ref(1), Ref(2)>>),
     Tuple(<<EntityTerm, Ref(1), Opt(2)>>),
     Tuple(<<EntityTerm>>), Tuple(<<Opt(1)>>), Tuple(<<EntityTerm, OptMut(2)>>),
     Tuple(<<Has(<<1>>)>>), Tuple(<<>>)}

\* C18 as the claim states it: any query on a world in which no entity was
\* ever spawned completes and yields zero items.
C18_EmptyWorldYieldsNothing ==
    spawned = <<>> =>
        \A Q \in EmptyWorldQueries :
            LET res == world_query(World, Q, overflow_checks)
            IN  res.panic = "" /\ res.items = <<>>

\* C18, amended: on a world in which no entity was ever spawned, a query (or
\* filtered query) without required terms yields zero items, and a query
\* with a required term (&C or &mut C) panics at the call, yielding nothing:
\* no component is registered before the first spawn.
C18_EmptyWorldQuery ==
    spawned = <<>> =>
        \A Q \in EmptyWorldQueries :
            LET res == world_query(World, Q, overflow_checks)
                filtered == world_query_filtered(World, Q, Has(<<1>>), overflow_checks)
            IN  /\ res.items = <<>> /\ filtered.items = <<>>
                /\ res.panic = (IF RequiredTypes(Q) = {} THEN "" ELSE "unregistered")
                /\ filtered.panic = res.panic

\* The world before its first spawn: nothing registered, no storage, and the
\* query for the entity handles yields nothing.
C18_Witness ==
    /\ spawned = <<>> /\ components = <<>> /\ storages = <<>>
    /\ world_query(World, Tuple(<<EntityTerm>>), overflow_checks).items = <<>>
    /\ world_query(World, Tuple(<<Ref(1)>>), overflow_checks).panic = "unregistered"

\* Queries whose order of iteration is observed.
OrderedQueries ==
    {Tuple(<<EntityTerm>>), Tuple(<<EntityTerm, Ref(1)>>), Tuple(<<EntityTerm, Mut(2)>>),
     Tuple(<<EntityTerm, Ref(1), Opt(2)>>)}

\* Row a of a storage is yielded before row b: its storage was created
\* earlier, or it is the same storage and a's index is lower.
RowBefore(a, b) == a[1] < b[1] \/ (a[1] = b[1] /\ a[2] < b[2])

\* C19: within one query invocation, rows are yielded storage by storage in
\* the order the storages were created, and within one storage in ascending
\* row index; the n-th item is that of the n-th row.
C19_IterationOrder ==
    \A Q \in OrderedQueries :
        (\A C \in RequiredTypes(Q) : is_registered(Registry, C))
        /\ (\A k \in 1..Len(Q.subs) :
               Q.subs[k].kind \in {"opt", "opt_mut"} => is_registered(Registry, Q.subs[k].type))
        => LET res == world_query(World, Q, overflow_checks)
           IN  /\ res.panic = ""
               /\ Len(res.items) = Len(res.rows)
               /\ \A m, n \in 1..Len(res.rows) :
                     m < n => RowBefore(res.rows[m], res.rows[n])
               /\ \A n \in 1..Len(res.rows) :
                     res.items[n][1] = storages[res.rows[n][1] + 1].entities[res.rows[n][2] + 1]

\* A query has yielded rows of two storages, two of the rows from one storage.
C19_Witness ==
    /\ is_registered(Registry, 1)
    /\ LET res == world_query(World, Tuple(<<EntityTerm, Ref(1)>>), overflow_checks)
       IN  /\ Len(res.rows) >= 3
           /\ \E m, n \in 1..Len(res.rows) : res.rows[m][1] # res.rows[n][1]
           /\ \E m, n \in 1..Len(res.rows) :
                 res.rows[m][1] = res.rows[n][1] /\ res.rows[m][2] # res.rows[n][2]

\* ------------------------------------------------------------------------
\* SpecWrite: the World of Spec, with queries that write through &mut C.
\* ------------------------------------------------------------------------
\* The value the closure of the query assigns: *name = String::from("Hej!").
Hej == 0

\* The assignment through the PtrMut that <&mut C>::fetch returns
\* (get_component_mut_unchecked): the row of the component's column.
write_component(st, index, comp_id, value) ==
    [st EXCEPT !.comp_storage[st.comp_indexes[comp_id] + 1][index + 1] = value]

\* world.query::<(EntityId, &mut C)>().for_each(|(_, c)| *c = value):
\* the storages after the closure has run on the rows from the i-th on.
RECURSIVE for_each_write(_, _, _, _, _)
for_each_write(ss, rows, comp_id, value, i) ==
    IF i > Len(rows) THEN ss
    ELSE Then([ss EXCEPT !.storages[rows[i][1] + 1] =
                   write_component(@, rows[i][2], comp_id, value)],
              LAMBDA written : for_each_write(written, rows, comp_id, value, i + 1))

\* [w |-> the world after the call, res |-> what the query yielded]
query_for_each_write(w, C, value, checks) ==
    Then(world_query(w, Tuple(<<EntityTerm, Mut(C)>>), checks), LAMBDA res :
        IF res.panic # "" THEN [w |-> w, res |-> res]
        ELSE [w |-> [w EXCEPT !.ss = for_each_write(w.ss, res.rows,
                                          Unwrap(get_component_id(w.cf, C)), value, 1)],
              res |-> res])

QueryWrite(C) ==
    /\ \E w \in {World}, checks \in {overflow_checks} :
         \E r \in {query_for_each_write(w, C, Hej, checks)} :
            /\ SetWorld(r.w)
            /\ ret' = [op |-> "query_mut", type |-> C, rows |-> r.res.rows,
                       items |-> r.res.items, panic |-> r.res.panic # ""]
    /\ UNCHANGED <<spawned, despawned, overflow_checks, archA, archB, keys, blob>>

NextWrite ==
    \/ \E shape \in BundleShapes : Spawn(shape)
    \/ \E entity \in Handles : Despawn(entity)
    \/ \E C \in CompTypes : QueryWrite(C)

SpecWrite == Init /\ [][NextWrite]_vars

\* C20: after a query has written through its &mut C term, get_component<C>
\* returns the written value for every entity whose row the query matched,
\* and every component of every entity in a storage the query did not match
\* is what it was before.
C20_WriteThroughMut ==
    [][(ret'.op = "query_mut" /\ ~ret'.panic) =>
          \A debug_assertions \in BOOLEAN :
              /\ \A n \in 1..Len(ret'.items) :
                    get_component(World', ret'.items[n][1], ret'.type, debug_assertions)
                        = Some(Hej)
              /\ \A sid \in 0..(Len(storages) - 1) :
                    (\A n \in 1..Len(ret'.rows) : ret'.rows[n][1] # sid) =>
                        \A k \in 1..Len(storages[sid + 1].entities) : \A D \in CompTypes :
                            get_component(World', storages[sid + 1].entities[k], D,
                                          debug_assertions)
                                = get_component(World, storages[sid + 1].entities[k], D,
                                                debug_assertions)]_vars


\* ------------------------------------------------------------------------
\* SpecEnt: an EntityFactory under new_entity and remove_entity, as in
\* test_entities.  spawned records the handles new_entity has returned,
\* despawned those remove_entity has removed.
\* ------------------------------------------------------------------------
MaxNews == 4

\* The metadata new_entity is given.
EntMetas == {EntityMeta(0, 0), EntityMeta(1, 2)}

InitEnt ==
    /\ InitWorld /\ InitKeys
    /\ type_map = <<>> /\ components = <<>>
    /\ ret = NoCall /\ overflow_checks = FALSE

\* entity_factory.new_entity(entity_meta)
NewEntity(entity_meta) ==
    /\ Len(spawned) < MaxNews
    /\ \E ef \in {Entities} : \E r \in {new_entity(ef, entity_meta)} :
          /\ generations' = r.ef.generations /\ queued_entitys' = r.ef.queued_entitys
          /\ entity_metas' = r.ef.entity_metas /\ entities' = r.ef.entities
          /\ spawned' = Append(spawned, [e |-> r.id, bundle |-> <<>>])
          /\ ret' = [op |-> "new_entity", entity |-> Some(r.id), meta |-> entity_meta,
                     panic |-> FALSE]
    /\ UNCHANGED <<type_map, components, storages, pkeys, despawned, overflow_checks,
                   archA, archB, keys, blob>>

\* entity_factory.remove_entity(entity), for a handle new_entity has
\* returned; the assert panics for a handle that was removed already.
RemoveEntity(entity) ==
    /\ entity \in Handles
    /\ \E ef \in {Entities} :
         IF ~verify_generation(ef, entity)
         THEN /\ ret' = [op |-> "remove_entity", entity |-> Some(entity),
                         meta |-> EntityMeta(0, 0), panic |-> TRUE]
              /\ UNCHANGED <<generations, queued_entitys, entity_metas, entities, despawned>>
         ELSE \E r \in {remove_entity(ef, entity)} :
                /\ generations' = r.generations /\ queued_entitys' = r.queued_entitys
                /\ entity_metas' = r.entity_metas /\ entities' = r.entities
                /\ despawned' = despawned \cup {entity}
                /\ ret' = [op |-> "remove_entity", entity |-> Some(entity),
                           meta |-> EntityMeta(0, 0), panic |-> FALSE]
    /\ UNCHANGED <<type_map, components, storages, pkeys, spawned, overflow_checks,
                   archA, archB, keys, blob>>

NextEnt ==
    \/ \E entity_meta \in EntMetas : NewEntity(entity_meta)
    \/ \E entity \in Handles : RemoveEntity(entity)

SpecEnt == InitEnt /\ [][NextEnt]_vars

\* C21: EntityFactory::entities() is the number of live handles, which is the
\* number of new_entity calls minus the number of successful remove_entity
\* calls, after any interleaving of the two.
C21_EntitiesCountsLive ==
    /\ entities = Cardinality({e \in Handles : verify_generation(Entities, e)})
    /\ entities = Len(spawned) - Cardinality(despawned)

\* Entities were made and removed, a slot was reused, and entities are live.
C21_Witness ==
    /\ despawned # {} /\ entities > 1
    /\ \E e \in LiveHandles : e.gen > 0

\* The pairs of distinct component types the probe Has<(A, B)> is asked for.
HasPairs == {<<WideA, WideB>>, <<WideB, WideA>>, <<WideB, WideC>>, <<WideA, WideC>>,
             <<WideC, WideB + 1>>}

\* C22: on every row of every storage, the probe Has<(A, B)> has the same
\* value as Has<A> AND Has<B>, fetched as a term and used as a filter.
C22_HasPairIsConjunction ==
    \A ab \in HasPairs :
        /\ \A s \in 1..Len(storages) : \A index \in 0..(storages[s].len - 1) :
              fetch(storages[s], index, Registry, Has(ab))
                  = (fetch(storages[s], index, Registry, Has(<<ab[1]>>))
                        /\ fetch(storages[s], index, Registry, Has(<<ab[2]>>)))
        /\ world_query_filtered(World, Tuple(<<EntityTerm>>), Has(ab), overflow_checks).rows
              = world_query_filtered(World, Tuple(<<EntityTerm>>),
                    Tuple(<<Has(<<ab[1]>>), Has(<<ab[2]>>)>>), overflow_checks).rows

\* The probes were fetched on rows of three storages: one on which Has<(B, C)>
\* is true, one with B and without C, and one with neither.
C22_Witness ==
    \E s, t, u \in 1..Len(storages) :
        /\ storages[s].len > 0 /\ storages[t].len > 0 /\ storages[u].len > 0
        /\ fetch(storages[s], 0, Registry, Has(<<WideB, WideC>>))
        /\ fetch(storages[t], 0, Registry, Has(<<WideB>>))
        /\ ~fetch(storages[t], 0, Registry, Has(<<WideC>>))
        /\ ~fetch(storages[u], 0, Registry, Has(<<WideB>>))
        /\ ~fetch(storages[u], 0, Registry, Has(<<WideC>>))
\* ------------------------------------------------------------------------
\* SpecBlob: one BlobVec from BlobVec::new to its destruction.  The unsafe
\* operations are called as their safety sections require (index < len).
\* ------------------------------------------------------------------------
Layouts == {Layout(0, 1), Layout(1, 1), Layout(2, 2)}
Sizes == {0, 1, 2, UsizeMax}
Occurrences(s, v) == Cardinality({i \in 1..Len(s) : s[i] = v})
InitBlob ==
    /\ InitWorld /\ InitKeys
    /\ type_map = <<>> /\ components = <<>>
    /\ ret = NoCall /\ overflow_checks = FALSE

\* The column after an operation that returned r, with `moved` values moved in.
AfterCall(r, moved) ==
    [vec |-> Some(r.vec), dropfn |-> r.vec.drop, moved_in |-> moved,
     drop_calls |-> [v \in 1..MaxValues |->
                        blob.drop_calls[v] + Occurrences(r.dropped, v)],
     drop_panicked |-> blob.drop_panicked \/ r.panic = DropPanic,
     destroyed |-> FALSE, panic |-> r.panic]
WorldUnchanged ==
    UNCHANGED <<type_map, components, generations, queued_entitys, entity_metas,
                entities, storages, pkeys, spawned, despawned, ret, overflow_checks,
                archA, archB, keys>>
Constructed == IsSome(blob.vec)

BlobNew(item_layout, drop, capacity) ==
    /\ ~Constructed /\ ~blob.destroyed
    /\ \E r \in {BlobVec_new(item_layout, drop, capacity)} :
          blob' = IF r.panic # "" THEN [blob EXCEPT !.panic = r.panic]
                    ELSE AfterCall(r, 0)
    /\ WorldUnchanged

BlobReserve(additional) ==
    /\ Constructed
    /\ \E r \in {reserve(Unwrap(blob.vec), additional)} :
          blob' = AfterCall(r, blob.moved_in)
    /\ WorldUnchanged

BlobReserveExact(additional) ==
    /\ Constructed
    /\ \E r \in {reserve_exact(Unwrap(blob.vec), additional)} :
          blob' = AfterCall(r, blob.moved_in)
    /\ WorldUnchanged

\* push of a new value; a push that panics in reserve has moved nothing in.
BlobPush ==
    /\ Constructed /\ blob.moved_in < MaxValues
    /\ \E r \in {push(Unwrap(blob.vec), blob.moved_in + 1)} :
          blob' = AfterCall(r, IF r.panic # "" THEN blob.moved_in
                                 ELSE blob.moved_in + 1)
    /\ WorldUnchanged

BlobSwapRemove(index, drop_panics) ==
    /\ Constructed /\ index < Unwrap(blob.vec).len
    /\ (drop_panics => Unwrap(blob.vec).drop)
    /\ \E r \in {swap_remove_and_drop_unchecked(Unwrap(blob.vec), index, drop_panics)} :
          blob' = AfterCall(r, blob.moved_in)
    /\ WorldUnchanged

BlobReplace(index, drop_panics) ==
    /\ Constructed /\ index < Unwrap(blob.vec).len /\ blob.moved_in < MaxValues
    /\ (drop_panics => Unwrap(blob.vec).drop)
    /\ \E r \in {replace_unchecked(Unwrap(blob.vec), index, blob.moved_in + 1,
                                   drop_panics)} :
          blob' = AfterCall(r, blob.moved_in + 1)
    /\ WorldUnchanged

BlobClear(panic_at) ==
    /\ Constructed /\ panic_at <= Unwrap(blob.vec).len
    /\ (panic_at > 0 => Unwrap(blob.vec).drop)
    /\ \E r \in {clear(Unwrap(blob.vec), panic_at)} :
          blob' = AfterCall(r, blob.moved_in)
    /\ WorldUnchanged

\* The column goes out of scope: <BlobVec as Drop>::drop.
BlobDrop(panic_at) ==
    /\ Constructed /\ panic_at <= Unwrap(blob.vec).len
    /\ (panic_at > 0 => Unwrap(blob.vec).drop)
    /\ \E r \in {BlobVec_drop(Unwrap(blob.vec), panic_at)} :
          blob' = [AfterCall(r, blob.moved_in) EXCEPT !.vec = None,
                                                          !.destroyed = TRUE]
    /\ WorldUnchanged

NextBlob ==
    \/ \E item_layout \in Layouts, drop \in BOOLEAN, capacity \in Sizes :
          BlobNew(item_layout, drop, capacity)
    \/ \E additional \in Sizes : BlobReserve(additional)
    \/ \E additional \in Sizes : BlobReserveExact(additional)
    \/ BlobPush
    \/ \E index \in 0..(MaxValues - 1), drop_panics \in BOOLEAN :
          BlobSwapRemove(index, drop_panics)
    \/ \E index \in 0..(MaxValues - 1), drop_panics \in BOOLEAN :
          BlobReplace(index, drop_panics)
    \/ \E panic_at \in 0..MaxValues : BlobClear(panic_at)
    \/ \E panic_at \in 0..MaxValues : BlobDrop(panic_at)
SpecBlob == InitBlob /\ [][NextBlob]_vars

Held == IF Constructed THEN {Unwrap(blob.vec).data[i] : i \in 1..Unwrap(blob.vec).len}
        ELSE {}
C24_LenWithinCapacity ==
    Constructed =>
        /\ Unwrap(blob.vec).len <= Unwrap(blob.vec).capacity
        /\ Len(Unwrap(blob.vec).data) = Unwrap(blob.vec).len
        /\ (Unwrap(blob.vec).item_layout.size = 0
              => Unwrap(blob.vec).capacity = UsizeMax)
C24_Witness ==
    /\ Constructed
    /\ Unwrap(blob.vec).item_layout.size > 0
    /\ Unwrap(blob.vec).len = Unwrap(blob.vec).capacity
    /\ Unwrap(blob.vec).len >= 2
    /\ blob.panic = "capacity overflow"


\* C25: EntityFactory::new_entity with an empty free queue adds exactly one
\* slot and returns (index = number of slots before the call, generation 0)
\* with the given metadata stored at that index; with a non-empty free queue
\* it adds no slot, reuses the index at the head of the queue and writes the
\* given metadata at that index.
C25_NewEntityAllocOrReuse ==
    [][(Len(spawned') = Len(spawned) + 1) =>
          \E h \in {spawned'[Len(spawned')].e} :
             IF queued_entitys = <<>>
             THEN /\ Len(generations') = Len(generations) + 1
                  /\ Len(entity_metas') = Len(entity_metas) + 1
                  /\ h = EntityId(Len(generations), 0)
                  /\ entity_metas'[h.id + 1] = ret'.meta
             ELSE /\ Len(generations') = Len(generations)
                  /\ Len(entity_metas') = Len(entity_metas)
                  /\ h.id = Head(queued_entitys).id
                  /\ entity_metas'[h.id + 1] = ret'.meta]_vars

\* C26: every handle returned by spawn is live when returned and differs, as
\* an (index, generation) pair, from every handle returned earlier; at any
\* time no two live entities have the same index.
C26_HandlesUniqueAndLive ==
    /\ [](\A i, j \in 1..Len(spawned) : i # j => spawned[i].e # spawned[j].e)
    /\ [](\A e1, e2 \in LiveHandles : e1.id = e2.id => e1 = e2)
    /\ [][(Len(spawned') = Len(spawned) + 1) =>
             /\ verify_generation(Entities', spawned'[Len(spawned')].e)
             /\ \A i \in 1..Len(spawned) : spawned[i].e # spawned'[Len(spawned')].e]_vars

\* Three handles were returned: the second reuses the index of the first,
\* which was despawned, and the third has a fresh index; two are live.
C26_Witness ==
    /\ Len(spawned) = 3
    /\ spawned[1].e.id = spawned[2].e.id /\ spawned[1].e.gen < spawned[2].e.gen
    /\ spawned[3].e.id # spawned[1].e.id
    /\ spawned[1].e \in despawned
    /\ {spawned[2].e, spawned[3].e} \subseteq LiveHandles

\* C27: freed entity indices are reused in the order in which they were
\* freed: remove_entity puts the freed handle behind the handles freed
\* before it, new_entity reuses the one freed first; and a handle produced
\* by reuse carries a generation strictly greater than the generation of the
\* freed handle with the same index.
C27_ReuseIsFifo ==
    [][/\ (Len(spawned') = Len(spawned) + 1 /\ queued_entitys # <<>>) =>
             /\ spawned'[Len(spawned')].e.id = Head(queued_entitys).id
             /\ spawned'[Len(spawned')].e.gen > Head(queued_entitys).gen
             /\ queued_entitys' = Tail(queued_entitys)
             /\ \A e \in despawned : e.id = spawned'[Len(spawned')].e.id
                                        => e.gen < spawned'[Len(spawned')].e.gen
       /\ (despawned' # despawned) =>
             /\ queued_entitys' = Append(queued_entitys, ret'.entity[1])
             /\ despawned' = despawned \cup {ret'.entity[1]}]_vars

\* Index 1 was freed before index 0 and was reused before it.
C27_Witness ==
    /\ Len(spawned) = 4
    /\ spawned[1].e = EntityId(0, 0) /\ spawned[2].e = EntityId(1, 0)
    /\ spawned[3].e = EntityId(1, 1) /\ spawned[4].e = EntityId(0, 1)
    /\ queued_entitys = <<>>

\* C28: the generation stored for an entity slot never decreases across any
\* operation: new_entity leaves the generation of every existing slot
\* unchanged, and remove_entity raises the generation of the removed slot by
\* exactly one and changes no other slot.
C28_GenerationMonotone ==
    [][/\ Len(generations') >= Len(generations)
       /\ \A i \in 1..Len(generations) : generations'[i] >= generations[i]
       /\ (Len(spawned') = Len(spawned) + 1) =>
             \A i \in 1..Len(generations) : generations'[i] = generations[i]
       /\ (despawned' # despawned) =>
             /\ Len(generations') = Len(generations)
             /\ \A i \in 1..Len(generations) :
                   generations'[i] = IF i = ret'.entity[1].id + 1
                                     THEN generations[i] + 1 ELSE generations[i]
       /\ (ret'.panic /\ ret'.op = "remove_entity") => generations' = generations]_vars

\* The last call removed an entity; one slot was removed for the second time
\* (generation 2) while another slot still has generation 0.
C28_Witness ==
    /\ Len(generations) >= 3
    /\ \E i, j \in 1..Len(generations) : generations[i] = 2 /\ generations[j] = 0
    /\ ret.op = "remove_entity" /\ ~ret.panic

\* The row of a storage at an index: its entity and its value in each column.
RowAt(st, index) ==
    [entity |-> st.entities[index + 1],
     values |-> [c \in DOMAIN st.comp_storage |-> st.comp_storage[c][index + 1]]]

\* What C29 requires of storage.swap_remove(row) = [st, ret] on a storage of
\* n rows.
SwapRemoved(before, row, after, returned) ==
    \E n \in {Len(before.entities)} :
        /\ Len(after.entities) = n - 1 /\ after.len = n - 1
        /\ \A c \in DOMAIN after.comp_storage : Len(after.comp_storage[c]) = n - 1
        /\ \A k \in 0..(n - 2) :
              RowAt(after, k) = IF k = row THEN RowAt(before, n - 1) ELSE RowAt(before, k)
        /\ returned = IF row # n - 1 THEN Some(before.entities[n]) ELSE None

StoredRows == {sk \in (1..Len(storages)) \X (1..MaxSpawns) :
                  sk[2] <= Len(storages[sk[1]].entities)}
RECURSIVE SumOfLengths(_)
SumOfLengths(i) ==
    IF i > Len(storages) THEN 0 ELSE Len(storages[i].entities) + SumOfLengths(i + 1)

\* C30: after any sequence of spawns and despawns (of bundles that name no
\* component twice) EntityFactory::entities() equals the sum of the lengths
\* of all archetype storages, and every entity id stored in a storage row is
\* a live handle that appears in no other row.
C30_StoredEntitiesAreLive ==
    AllSpawnedDuplicateFree =>
        /\ entities = SumOfLengths(1)
        /\ \A sk \in StoredRows :
              /\ storages[sk[1]].entities[sk[2]] \in LiveHandles
              /\ verify_generation(Entities, storages[sk[1]].entities[sk[2]])
              /\ \A other \in StoredRows :
                    storages[other[1]].entities[other[2]] = storages[sk[1]].entities[sk[2]]
                       => other = sk

\* C31: a register call that returns None leaves the registry unchanged: the
\* type stays unregistered (is_registered false, get_component_id None), and
\* the number of stored component descriptors never exceeds MAX_COMPONENTS.
C31_FailedRegisterChangesNothing ==
    /\ [](Len(components) <= MAX_COMPONENTS)
    /\ [][(ret'.op = "register" /\ ret'.out = None) =>
             /\ components' = components /\ type_map' = type_map
             /\ ~is_registered(Registry', ret'.type)
             /\ get_component_id(Registry', ret'.type) = None]_vars

\* ------------------------------------------------------------------------
\* SpecStore: one ArchStorage, made by ArchStorage::new for a tuple of the
\* registered components A and B, under store_bundle, as the test
\* test_component_storage calls it.  The bundles offered have the storage's
\* archetype, a part of it, or name the unregistered component StrangerType;
\* a bundle with a registered component the storage has no column for is
\* outside the safety precondition of store_component_unchecked.
\* ------------------------------------------------------------------------
MaxCalls == 3
StrangerType == 3
StoreShapes == {<<>>, <<1>>, <<2>>, <<1, 2>>, <<2, 1>>}
StoreRegistry == register_component(register_component(EmptyFactory, 1).cf, 2).cf

InitStore ==
    /\ generations = <<>> /\ queued_entitys = <<>> /\ entity_metas = <<>> /\ entities = 0
    /\ spawned = <<>> /\ despawned = {} /\ blob = NoColumn
    /\ InitKeys
    /\ type_map = StoreRegistry.type_map /\ components = StoreRegistry.components
    /\ overflow_checks = FALSE
    /\ ret = [op |-> "new", bundle |-> <<>>, out |-> None, call |-> 0]
    /\ \E arch \in StoreShapes :
       \E st \in {Unwrap(ArchEntityStorage_new(StoreRegistry, arch))} :
          storages = <<st>> /\ pkeys = <<st.prime_key>>

\* The bundles store_bundle is given on a storage.
StoreBundles(st) ==
    {shape \in StoreShapes : \A k \in 1..Len(shape) :
        Unwrap(get_component_id(Registry, shape[k])) \in DOMAIN st.comp_indexes}
      \cup {<<StrangerType>>}

\* storage.store_bundle(&comp_factory, bundle)
StoreBundle(shape) ==
    /\ ret.call < MaxCalls
    /\ shape \in StoreBundles(storages[1])
    /\ \E st \in {storages[1]}, cf \in {Registry},
          bundle \in {BundleOf(shape, ret.call + 1)} :
       \E r \in {store_bundle(st, cf, bundle)} :
          /\ storages' = <<r.st>>
          /\ ret' = [op |-> "store_bundle", bundle |-> bundle, out |-> r.ret,
                     call |-> ret.call + 1]
    /\ UNCHANGED <<type_map, components, generations, queued_entitys, entity_metas,
                   entities, pkeys, spawned, despawned, overflow_checks,
                   archA, archB, keys, blob>>

NextStore == \E shape \in StoreShapes \cup {<<StrangerType>>} : StoreBundle(shape)
SpecStore == InitStore /\ [][NextStore]_vars

\* C32: ArchStorage::store_bundle with a bundle whose archetype key differs
\* from the storage's key returns None and leaves the storage's len and
\* every column unchanged; with a matching bundle it returns the number of
\* rows stored before the call and raises len by exactly one.
C32_StoreBundleChecksKey ==
    [][(ret'.call = ret.call + 1) =>
          \E pkey \in {prime_key(Registry, ArchOf(ret'.bundle))} :
             /\ (IsSome(pkey) /\ ~is_exact_archetype(Unwrap(pkey), storages[1].prime_key)) =>
                   /\ ret'.out = None
                   /\ storages'[1].len = storages[1].len
                   /\ storages'[1].comp_storage = storages[1].comp_storage
             /\ (IsSome(pkey) /\ is_exact_archetype(Unwrap(pkey), storages[1].prime_key)) =>
                   /\ ret'.out = Some(storages[1].len)
                   /\ storages'[1].len = storages[1].len + 1]_vars

\* ------------------------------------------------------------------------
\* SpecArch: an ArchStorages, empty at first, under
\* store_new_archetype_checked for tuples of the registered components A
\* and B.
\* ------------------------------------------------------------------------
InitArch ==
    /\ InitWorld /\ InitKeys
    /\ type_map = StoreRegistry.type_map /\ components = StoreRegistry.components
    /\ overflow_checks = FALSE
    /\ ret = [op |-> "new", arch |-> <<>>, out |-> None, call |-> 0]

\* storages.store_new_archetype_checked::<A>(&comp_factory)
StoreNewArchetype(arch) ==
    /\ ret.call < MaxCalls
    /\ \E ss \in {Catalog}, cf \in {Registry} :
       \E r \in {store_new_archetype_checked(ss, cf, arch)} :
          /\ storages' = r.ss.storages /\ pkeys' = r.ss.pkeys
          /\ ret' = [op |-> "store_new_archetype_checked", arch |-> arch, out |-> r.ret,
                     call |-> ret.call + 1]
    /\ UNCHANGED <<type_map, components, generations, queued_entitys, entity_metas,
                   entities, spawned, despawned, overflow_checks,
                   archA, archB, keys, blob>>

NextArch == \E arch \in StoreShapes : StoreNewArchetype(arch)
SpecArch == InitArch /\ [][NextArch]_vars

\* C33: ArchStorages::store_new_archetype_checked returns None and adds no
\* storage when a storage for the archetype already exists; otherwise it
\* adds exactly one storage and returns its id, which is the number of
\* storages before the call.
C33_StoreNewArchetypeChecked ==
    [][(ret'.call = ret.call + 1) =>
          IF is_archetype_stored(Catalog, Registry, ret'.arch)
          THEN /\ ret'.out = None
               /\ storages' = storages /\ pkeys' = pkeys
          ELSE /\ ret'.out = Some(Len(storages))
               /\ Len(storages') = Len(storages) + 1
               /\ Len(pkeys') = Len(pkeys) + 1
               /\ SubSeq(storages', 1, Len(storages)) = storages]_vars

\* Queries in which two terms name the component A and at least one of the
\* two is optional; in each, one of the borrows is exclusive.
AliasingQueries ==
    {Tuple(<<Ref(1), OptMut(1)>>), Tuple(<<OptMut(1), Ref(1)>>),
     Tuple(<<Mut(1), Opt(1)>>), Tuple(<<Mut(1), OptMut(1)>>),
     Tuple(<<OptMut(1), OptMut(1)>>), Tuple(<<EntityTerm, Opt(1), OptMut(1)>>)}

\* C34: a query in which two terms name the same component is rejected also
\* when one or both of the terms are optional (for example
\* (&C, Option<&mut C>)): once the component is registered the query panics
\* with "Can't query duplicate components" and yields no row, so that no
\* yielded row holds two borrows of the same component of which one is
\* exclusive.
C34_OptionalDuplicateRejected ==
    is_registered(Registry, 1) =>
        \A Q \in AliasingQueries :
            \E res \in {world_query(World, Q, overflow_checks)} :
                res.panic = "duplicate" /\ res.items = <<>>

\* Queries with a term that names StrangerType, a component no spawn of Spec
\* registers.
ForeignQueries ==
    {Tuple(<<Ref(StrangerType)>>), Tuple(<<Mut(StrangerType)>>),
     Tuple(<<Opt(StrangerType)>>), Tuple(<<OptMut(StrangerType)>>),
     Tuple(<<EntityTerm, Opt(StrangerType)>>), Tuple(<<EntityTerm, Ref(StrangerType)>>)}

\* C35: a query with a term that names an unregistered component panics at
\* use, for required terms and for optional terms alike, and never silently
\* yields an empty result.
C35_UnregisteredQueryPanics ==
    \A Q \in ForeignQueries :
        \E res \in {world_query(World, Q, overflow_checks)} :
            res.panic = "unregistered" /\ res.items = <<>>

\* The filters C36 combines, and the value of a filter on a row.
LeafFilters == {Has(<<1>>), Not(Has(<<2>>)), Has(<<1, 2>>)}
FilterOn(F, s, index) == collapse(F, fetch(storages[s], index, Registry, F))

\* C36: inside Or<...> a nested tuple of filters is combined by OR as well,
\* so Or<((F1, F2), F3)> is true iff F1 or F2 or F3 is true; the empty tuple
\* filter () is true on every row and Or<()> is false on every row.
C36_NestedOrIsOr ==
    /\ \A s \in 1..Len(storages) : \A index \in 0..(storages[s].len - 1) :
          /\ \E val \in {[F \in LeafFilters |-> FilterOn(F, s, index)]} :
                \A F1, F2, F3 \in LeafFilters :
                   FilterOn(Or(Tuple(<<Tuple(<<F1, F2>>), F3>>)), s, index)
                      = (val[F1] \/ val[F2] \/ val[F3])
          /\ FilterOn(Tuple(<<>>), s, index)
          /\ ~FilterOn(Or(Tuple(<<>>)), s, index)
    /\ world_query_filtered(World, Tuple(<<EntityTerm>>), Tuple(<<>>),
                            overflow_checks).rows
          = world_query(World, Tuple(<<EntityTerm>>), overflow_checks).rows
    /\ world_query_filtered(World, Tuple(<<EntityTerm>>), Or(Tuple(<<>>)),
                            overflow_checks).rows = <<>>

\* A row with A and without B, on which Or<((Has<(A, B)>, Has<A>), Has<(A, B)>)> is
\* true through the second element of the nested tuple alone, and a row of
\* another storage.
C36_Witness ==
    /\ \E s \in 1..Len(storages) :
          /\ storages[s].len > 0
          /\ FilterOn(Has(<<1>>), s, 0) /\ ~FilterOn(Has(<<2>>), s, 0)
          /\ FilterOn(Or(Tuple(<<Tuple(<<Has(<<1, 2>>), Has(<<1>>)>>), Has(<<1, 2>>)>>)), s, 0)
    /\ \E s \in 1..Len(storages) :
          storages[s].len > 0 /\ FilterOn(Has(<<2>>), s, 0)

\* A step of replace_unchecked: one more value was moved in and the column
\* did not grow by it (a push that moves a value in raises len by one).
ReplaceStep ==
    /\ Constructed /\ IsSome(blob'.vec)
    /\ blob'.moved_in = blob.moved_in + 1
    /\ Unwrap(blob'.vec).len # Unwrap(blob.vec).len + 1

\* C37: if the drop function panics while replace_unchecked drops the old
\* value, the incoming value is dropped exactly once, the column's length is
\* zero after the panic unwound, and no value of the column is ever dropped a
\* second time; if the drop returns normally the length is the same as
\* before the call (and the incoming value is in the column, not dropped).
C37_ReplacePanicSafety ==
    /\ [](\A v \in 1..MaxValues : blob.drop_calls[v] <= 1)
    /\ [][ReplaceStep =>
            IF blob'.panic = DropPanic
            THEN /\ blob'.drop_calls[blob'.moved_in] = 1
                 /\ Unwrap(blob'.vec).len = 0
                 /\ Unwrap(blob'.vec).data = <<>>
                 /\ \E v \in 1..blob.moved_in :
                       /\ v \in Held
                       /\ blob'.drop_calls[v] = 1
                       /\ \A u \in 1..blob.moved_in :
                             u # v => blob'.drop_calls[u] = blob.drop_calls[u]
            ELSE /\ blob'.panic = ""
                 /\ Unwrap(blob'.vec).len = Unwrap(blob.vec).len
                 /\ blob'.drop_calls[blob'.moved_in] = 0
                 /\ \E i \in 1..Unwrap(blob.vec).len :
                       /\ Unwrap(blob'.vec).data
                             = [Unwrap(blob.vec).data EXCEPT ![i] = blob'.moved_in]
                       /\ blob'.drop_calls[Unwrap(blob.vec).data[i]]
                             = IF blob.dropfn THEN 1 ELSE 0]_vars

\* Right after replace_unchecked(1, value 3) on a column holding the values
\* 1 and 2, the drop of value 2 having panicked: values 2 and 3 were dropped
\* once each, len is 0 and value 1 is forgotten.  (Value 1 stays at index 0
\* while it is held, so no other operation leaves it undropped at len 0.)
C37_Witness ==
    /\ Constructed /\ blob.dropfn
    /\ blob.panic = DropPanic
    /\ Unwrap(blob.vec).len = 0
    /\ blob.moved_in = 3
    /\ blob.drop_calls = [v \in 1..MaxValues |-> IF v \in {2, 3} THEN 1 ELSE 0]

\* What C38 says of swap_remove_and_drop_unchecked(index) called on the
\* column `before`, leaving the column `after` with the drop calls `dropped`.
SwapRemovedAndDropped(before, index, after, dropped) ==
    /\ after.len = before.len - 1
    /\ after.capacity = before.capacity
    /\ after.item_layout = before.item_layout /\ after.drop = before.drop
    /\ Len(after.data) = after.len
    /\ \A i \in 0..(after.len - 1) :
          after.data[i + 1] = IF i = index THEN before.data[before.len]
                              ELSE before.data[i + 1]
    /\ dropped = IF before.drop THEN <<before.data[index + 1]>> ELSE <<>>

\* A step that lowered len by one and moved nothing in:
\* swap_remove_and_drop_unchecked (or clear on a column of one value, which
\* has the same effect as swap_remove_and_drop_unchecked(0)).
RemoveStep ==
    /\ Constructed /\ IsSome(blob'.vec)
    /\ Unwrap(blob'.vec).len = Unwrap(blob.vec).len - 1
    /\ blob'.moved_in = blob.moved_in

\* C38: swap_remove_and_drop_unchecked(index) with index < len lowers len by
\* one, leaves at index the element that was last (when index was not the
\* last), leaves every other remaining element and the capacity unchanged,
\* and calls the drop function (of a column that has one) once, on the
\* removed value.
C38_SwapRemoveAndDrop ==
    /\ [](Constructed =>
            \A index \in 0..(Unwrap(blob.vec).len - 1), drop_panics \in BOOLEAN :
               \E r \in {swap_remove_and_drop_unchecked(Unwrap(blob.vec), index,
                                                        drop_panics)} :
                  SwapRemovedAndDropped(Unwrap(blob.vec), index, r.vec, r.dropped))
    /\ [][RemoveStep =>
            \E index \in 0..(Unwrap(blob.vec).len - 1) :
               /\ SwapRemovedAndDropped(Unwrap(blob.vec), index, Unwrap(blob'.vec),
                     IF blob.dropfn THEN <<Unwrap(blob.vec).data[index + 1]>>
                     ELSE <<>>)
               /\ \A v \in 1..MaxValues :
                     blob'.drop_calls[v] = blob.drop_calls[v]
                        + (IF blob.dropfn /\ v = Unwrap(blob.vec).data[index + 1]
                           THEN 1 ELSE 0)]_vars

\* Value 3 left the column through a drop call that returned, so it was
\* removed by swap_remove_and_drop_unchecked, and value 2 is alone in the
\* column at index 0: either 3 was removed from <<3, 2>> at index 0 or 1 was
\* removed from <<1, 2>> at index 0, and the last item took its place.
C38_Witness ==
    /\ Constructed /\ blob.dropfn /\ ~blob.drop_panicked
    /\ blob.moved_in = 3
    /\ Unwrap(blob.vec).data = <<2>>
    /\ blob.drop_calls = [v \in 1..MaxValues |-> IF v \in {1, 3} THEN 1 ELSE 0]

\* C39: when reserve(additional) has to grow a non-zero-sized column, the
\* new capacity is at least twice the old capacity and at least
\* len + additional; when capacity - len >= additional, reserve and
\* reserve_exact change nothing; after reserve_exact(additional) has
\* returned the capacity is at least len + additional.  A call that panics
\* instead of growing leaves the column as it was.
C39_ReserveGrowth ==
    Constructed =>
        \E self \in {Unwrap(blob.vec)} : \A additional \in 0..UsizeMax :
            \E r \in {reserve(self, additional)},
               e \in {reserve_exact(self, additional)} :
                /\ self.capacity - self.len >= additional
                      => (r = Returned(self) /\ e = Returned(self))
                /\ (self.capacity - self.len < additional /\ r.panic = "")
                      => /\ self.item_layout.size > 0
                         /\ r.vec.capacity >= 2 * self.capacity
                         /\ r.vec.capacity >= self.len + additional
                         /\ r.vec = [self EXCEPT !.capacity = r.vec.capacity]
                         /\ r.dropped = <<>>
                /\ (self.capacity - self.len < additional /\ e.panic = "")
                      => /\ self.item_layout.size > 0
                         /\ e.vec = [self EXCEPT !.capacity = self.len + additional]
                         /\ e.dropped = <<>>
                /\ e.panic = "" => e.vec.capacity >= self.len + additional
                /\ r.panic = "" => r.vec.capacity >= self.len + additional
                /\ r.panic # "" => (r.vec = self /\ r.dropped = <<>>)
                /\ e.panic # "" => (e.vec = self /\ e.dropped = <<>>)

\* A full column of three one-byte items whose capacity a reserve doubled
\* from 3 to 6 (reserve_exact stops at len + additional).
C39_Witness ==
    /\ Constructed
    /\ Unwrap(blob.vec).item_layout.size = 1
    /\ Unwrap(blob.vec).len = 3
    /\ Unwrap(blob.vec).capacity = 6
    /\ blob.panic = ""
====
